---- MODULE Spec2Model ----
(***************************************************************************)
(* Model of the streaming subscription life-cycle engine                   *)
(* (src/openapi/streaming/subscription.js) and of its coalescing action    *)
(* queue (src/openapi/streaming/subscription-queue.js).                    *)
(*                                                                         *)
(* The subscription object is represented by a record `st`; every function *)
(* of subscription.js is an operator from such a record (and the function's*)
(* arguments) to the record after the call.  One action of Next is one     *)
(* entry into the object from outside: a public method called by the host, *)
(* a transport response, or the expiry of the retry timer.                 *)
(***************************************************************************)
EXTENDS Integers, Sequences, FiniteSets, TLC

\* ------------------------------------------------------------------------
\* Bounds of the model
\* ------------------------------------------------------------------------
\* number of HTTP requests after which no handler that issues one is taken
MaxHttp == 3
\* number of queued items after which no caller action is taken
MaxQueue == 2
\* number of deltas buffered before the subscribe response
MaxBuffer == 1

\* ------------------------------------------------------------------------
\* Constants of the program
\* ------------------------------------------------------------------------
ACTION_SUBSCRIBE == 1
ACTION_UNSUBSCRIBE == 2
ACTION_MODIFY_PATCH == 4
ACTION_UNSUBSCRIBE_BY_TAG_PENDING == 8

STATE_SUBSCRIBE_REQUESTED == 1
STATE_SUBSCRIBED == 2
STATE_UNSUBSCRIBE_REQUESTED == 4
STATE_UNSUBSCRIBED == 8
STATE_PATCH_REQUESTED == 16
\* The prototype never assigns STATE_READY_FOR_UNSUBSCRIBE_BY_TAG: reading it
\* yields undefined, which is its own value under === and 0 under | and &.
STATE_READY_FOR_UNSUBSCRIBE_BY_TAG == 0

UPDATE_TYPE_SNAPSHOT == 1
UPDATE_TYPE_DELTA == 2

FORMAT_PROTOBUF == "application/x-protobuf"
FORMAT_JSON == "application/json"

RECURSIVE BitAnd(_, _)
BitAnd(a, b) ==
    IF a = 0 \/ b = 0 THEN 0
    ELSE (IF a % 2 = 1 /\ b % 2 = 1 THEN 1 ELSE 0) + 2 * BitAnd(a \div 2, b \div 2)

RECURSIVE BitOr(_, _)
BitOr(a, b) ==
    IF a = 0 THEN b
    ELSE IF b = 0 THEN a
    ELSE (IF a % 2 = 1 \/ b % 2 = 1 THEN 1 ELSE 0) + 2 * BitOr(a \div 2, b \div 2)

TRANSITIONING_STATES ==
    BitOr(BitOr(BitOr(STATE_SUBSCRIBE_REQUESTED, STATE_UNSUBSCRIBE_REQUESTED),
                STATE_PATCH_REQUESTED),
          STATE_READY_FOR_UNSUBSCRIBE_BY_TAG)

States == {STATE_SUBSCRIBE_REQUESTED, STATE_SUBSCRIBED, STATE_UNSUBSCRIBE_REQUESTED,
           STATE_UNSUBSCRIBED, STATE_PATCH_REQUESTED, STATE_READY_FOR_UNSUBSCRIBE_BY_TAG}

Actions == {ACTION_SUBSCRIBE, ACTION_UNSUBSCRIBE, ACTION_MODIFY_PATCH,
            ACTION_UNSUBSCRIBE_BY_TAG_PENDING}

\* ------------------------------------------------------------------------
\* SubscriptionQueue: items are {action, args}; args is {force} for an
\* unsubscribe, the patch delta for a patch, undefined (0) otherwise.
\* ------------------------------------------------------------------------
Item(action, force, delta) == [action |-> action, force |-> force, delta |-> delta]

isEmpty(items) == Len(items) = 0

getLastItem(items) == items[Len(items)]

RemoveLast(items) == SubSeq(items, 1, Len(items) - 1)

\* a slip: after removing the tail the item is appended, not enqueued again
enqueue_singlePass(items, queuedItem) ==
    IF isEmpty(items) THEN Append(items, queuedItem)
    ELSE
      LET action == queuedItem.action
          prevItem == getLastItem(items)
          prevAction == prevItem.action
      IN  IF action = prevAction /\ action # ACTION_MODIFY_PATCH
          THEN IF action = ACTION_UNSUBSCRIBE /\ queuedItem.force /\ ~prevItem.force
               THEN [items EXCEPT ![Len(items)].force = TRUE]
               ELSE items
          ELSE IF \/ (prevAction = ACTION_UNSUBSCRIBE /\ action = ACTION_SUBSCRIBE
                        /\ ~prevItem.force)
                  \/ (prevAction = ACTION_SUBSCRIBE
                        /\ (action = ACTION_UNSUBSCRIBE
                              \/ action = ACTION_UNSUBSCRIBE_BY_TAG_PENDING))
                  \/ (prevAction = ACTION_MODIFY_PATCH
                        /\ ((action = ACTION_UNSUBSCRIBE /\ queuedItem.force)
                              \/ action = ACTION_UNSUBSCRIBE_BY_TAG_PENDING))
                  \/ (prevAction = ACTION_UNSUBSCRIBE
                        /\ action = ACTION_UNSUBSCRIBE_BY_TAG_PENDING)
          THEN Append(RemoveLast(items), queuedItem)
          ELSE Append(items, queuedItem)

\* a slip: a subscribe removes a forced unsubscribe as it does an unforced one
enqueue_removesForced(items, queuedItem) ==
    IF isEmpty(items) THEN Append(items, queuedItem)
    ELSE
      LET action == queuedItem.action
          prevItem == getLastItem(items)
          prevAction == prevItem.action
      IN  IF action = prevAction /\ action # ACTION_MODIFY_PATCH
          THEN IF action = ACTION_UNSUBSCRIBE /\ queuedItem.force /\ ~prevItem.force
               THEN [items EXCEPT ![Len(items)].force = TRUE]
               ELSE items
          ELSE IF \/ (prevAction = ACTION_UNSUBSCRIBE /\ action = ACTION_SUBSCRIBE)
                  \/ (prevAction = ACTION_SUBSCRIBE
                        /\ (action = ACTION_UNSUBSCRIBE
                              \/ action = ACTION_UNSUBSCRIBE_BY_TAG_PENDING))
                  \/ (prevAction = ACTION_MODIFY_PATCH
                        /\ ((action = ACTION_UNSUBSCRIBE /\ queuedItem.force)
                              \/ action = ACTION_UNSUBSCRIBE_BY_TAG_PENDING))
                  \/ (prevAction = ACTION_UNSUBSCRIBE
                        /\ action = ACTION_UNSUBSCRIBE_BY_TAG_PENDING)
          THEN enqueue_singlePass(RemoveLast(items), queuedItem)
          ELSE Append(items, queuedItem)

\* a slip: the forces of two unsubscribes are not joined
enqueue_keepsForce(items, queuedItem) ==
    IF isEmpty(items) THEN Append(items, queuedItem)
    ELSE
      LET action == queuedItem.action
          prevItem == getLastItem(items)
          prevAction == prevItem.action
      IN  IF action = prevAction /\ action # ACTION_MODIFY_PATCH
          THEN items
          ELSE IF \/ (prevAction = ACTION_UNSUBSCRIBE /\ action = ACTION_SUBSCRIBE
                        /\ ~prevItem.force)
                  \/ (prevAction = ACTION_SUBSCRIBE
                        /\ (action = ACTION_UNSUBSCRIBE
                              \/ action = ACTION_UNSUBSCRIBE_BY_TAG_PENDING))
                  \/ (prevAction = ACTION_MODIFY_PATCH
                        /\ ((action = ACTION_UNSUBSCRIBE /\ queuedItem.force)
                              \/ action = ACTION_UNSUBSCRIBE_BY_TAG_PENDING))
                  \/ (prevAction = ACTION_UNSUBSCRIBE
                        /\ action = ACTION_UNSUBSCRIBE_BY_TAG_PENDING)
          THEN LET rest == RemoveLast(items)
               IN  IF ~isEmpty(rest) /\ getLastItem(rest).action = action
                      /\ action # ACTION_MODIFY_PATCH
                   THEN rest
                   ELSE enqueue_singlePass(rest, queuedItem)
          ELSE Append(items, queuedItem)

\* a slip: a subscribe and the unforced unsubscribe before it both vanish
enqueue_dropsPair(items, queuedItem) ==
    IF isEmpty(items) THEN Append(items, queuedItem)
    ELSE
      LET action == queuedItem.action
          prevItem == getLastItem(items)
          prevAction == prevItem.action
      IN  IF action = prevAction /\ action # ACTION_MODIFY_PATCH
          THEN IF action = ACTION_UNSUBSCRIBE /\ queuedItem.force /\ ~prevItem.force
               THEN [items EXCEPT ![Len(items)].force = TRUE]
               ELSE items
          ELSE IF prevAction = ACTION_UNSUBSCRIBE /\ action = ACTION_SUBSCRIBE
                    /\ ~prevItem.force
          THEN RemoveLast(items)
          ELSE IF \/ (prevAction = ACTION_SUBSCRIBE
                        /\ (action = ACTION_UNSUBSCRIBE
                              \/ action = ACTION_UNSUBSCRIBE_BY_TAG_PENDING))
                  \/ (prevAction = ACTION_MODIFY_PATCH
                        /\ ((action = ACTION_UNSUBSCRIBE /\ queuedItem.force)
                              \/ action = ACTION_UNSUBSCRIBE_BY_TAG_PENDING))
                  \/ (prevAction = ACTION_UNSUBSCRIBE
                        /\ action = ACTION_UNSUBSCRIBE_BY_TAG_PENDING)
          THEN enqueue_singlePass(RemoveLast(items), queuedItem)
          ELSE Append(items, queuedItem)

RECURSIVE enqueue(_, _)
enqueue(items, queuedItem) ==
    IF isEmpty(items) THEN Append(items, queuedItem)
    ELSE
      LET action == queuedItem.action
          prevItem == getLastItem(items)
          prevAction == prevItem.action
      IN  IF action = prevAction /\ action # ACTION_MODIFY_PATCH
          THEN IF action = ACTION_UNSUBSCRIBE /\ queuedItem.force /\ ~prevItem.force
               THEN [items EXCEPT ![Len(items)].force = TRUE]
               ELSE items
          ELSE IF \/ (prevAction = ACTION_UNSUBSCRIBE /\ action = ACTION_SUBSCRIBE
                        /\ ~prevItem.force)
                  \/ (prevAction = ACTION_SUBSCRIBE
                        /\ (action = ACTION_UNSUBSCRIBE
                              \/ action = ACTION_UNSUBSCRIBE_BY_TAG_PENDING))
                  \/ (prevAction = ACTION_MODIFY_PATCH
                        /\ ((action = ACTION_UNSUBSCRIBE /\ queuedItem.force)
                              \/ action = ACTION_UNSUBSCRIBE_BY_TAG_PENDING))
                  \/ (prevAction = ACTION_UNSUBSCRIBE
                        /\ action = ACTION_UNSUBSCRIBE_BY_TAG_PENDING)
          THEN enqueue(RemoveLast(items), queuedItem)
          ELSE Append(items, queuedItem)

\* a slip: the queue is left as it is
clearPatches_keepsAll(items) == items

clearPatches(items) ==
    LET keep == {i \in 1..Len(items) :
                    items[i].action # ACTION_SUBSCRIBE /\ items[i].action # ACTION_MODIFY_PATCH}
    IN  IF keep = {} THEN << >>
        ELSE << items[CHOOSE i \in keep : \A j \in keep : i <= j] >>

\* undefined is 0: it is only compared with, or and-ed to, ACTION_UNSUBSCRIBE
peekAction(items) == IF isEmpty(items) THEN 0 ELSE items[1].action

\* a slip: the items behind the head are discarded
dequeue_dropsRest(items) == << Head(items), << >> >>

\* a slip: the head is returned and the last unsubscribe is left as the new
\* head
dequeue_returnsHead(items) ==
    LET rest == Tail(items)
        unsubs == {i \in 1..Len(rest) :
                      rest[i].action = ACTION_UNSUBSCRIBE
                        \/ rest[i].action = ACTION_UNSUBSCRIBE_BY_TAG_PENDING}
    IN  IF isEmpty(rest) \/ unsubs = {} THEN << Head(items), rest >>
        ELSE LET i == CHOOSE k \in unsubs : \A j \in unsubs : j <= k
             IN  << Head(items), SubSeq(rest, i, Len(rest)) >>

\* <<returned item, remaining items>>; called on non-empty queues only
dequeue(items) ==
    LET rest == Tail(items)
        unsubs == {i \in 1..Len(rest) :
                      rest[i].action = ACTION_UNSUBSCRIBE
                        \/ rest[i].action = ACTION_UNSUBSCRIBE_BY_TAG_PENDING}
    IN  IF isEmpty(rest) \/ unsubs = {} THEN << Head(items), rest >>
        ELSE LET i == CHOOSE k \in unsubs : \A j \in unsubs : j <= k
             IN  << rest[i], SubSeq(rest, i + 1, Len(rest)) >>


\* ------------------------------------------------------------------------
\* Subscription: the object is a record st; the helpers below are the
\* primitive effects the functions of subscription.js are made of.
\* ------------------------------------------------------------------------
Call(cb, x, y) == [cb |-> cb, x |-> x, y |-> y]

\* a callback given at construction is invoked
Invoke(st, cb, x, y) == [st EXCEPT !.calls = Append(@, Call(cb, x, y))]

Request(kind, ref, ctx, fmt, delta, disposed) ==
    [kind |-> kind, ReferenceId |-> ref, ContextId |-> ctx, Format |-> fmt,
     delta |-> delta, disposed |-> disposed]

\* transport.post / transport.delete / transport.patch: the request is sent
\* and its promise is pending
Send(st, req) ==
    [st EXCEPT !.requests = Append(@, req),
               !.inflight = @ \cup {Len(st.requests) + 1}]

setState(st, state) ==
    Invoke([st EXCEPT !.currentState = state], "stateChanged", state, 0)

\* a slip: the time of the last activity is not updated
onActivity_keepsTime(st) == st

onActivity(st) == [st EXCEPT !.latestActivity = st.clock]

clearTimeout(st) ==
    [st EXCEPT !.timers = @ \ {st.networkErrorSubscribingTimer},
               !.networkErrorSubscribingTimer = 0]

setTimeout(st) ==
    LET id == CHOOSE i \in 1..(Cardinality(st.timers) + 1) :
                  i \notin st.timers /\ \A j \in 1..(i - 1) : j \in st.timers
    IN  [st EXCEPT !.timers = @ \cup {id}, !.networkErrorSubscribingTimer = id]

Throw(st) == [st EXCEPT !.thrown = TRUE]

IsTransitioning(st) == BitAnd(TRANSITIONING_STATES, st.currentState) # 0

\* a slip: the updates buffered for the previous POST are kept
subscribe_keepsBuffer(st) ==
    LET referenceId == st.referenceIdCounter
        s1 == [st EXCEPT !.referenceIdCounter = @ + 1,
                         !.referenceId = referenceId]
        s2 == setState(s1, STATE_SUBSCRIBE_REQUESTED)
        s3 == [s2 EXCEPT !.currentStreamingContextId = st.streamingContextId]
    IN  Send(s3, Request("POST", referenceId, st.streamingContextId, st.Format, 0,
                         st.isDisposed))

\* a slip: the counter is read but not incremented
subscribe_reusesId(st) ==
    LET referenceId == st.referenceIdCounter
        s1 == [st EXCEPT !.referenceId = referenceId,
                         !.updatesBeforeSubscribed = << >>]
        s2 == setState(s1, STATE_SUBSCRIBE_REQUESTED)
        s3 == [s2 EXCEPT !.currentStreamingContextId = st.streamingContextId]
    IN  Send(s3, Request("POST", referenceId, st.streamingContextId, st.Format, 0,
                         st.isDisposed))

\* a slip: the buffer is reset by the first subscribe only
subscribe_clearsOnFirstOnly(st) ==
    LET referenceId == st.referenceIdCounter
        s1 == [st EXCEPT !.referenceIdCounter = @ + 1,
                         !.referenceId = referenceId,
                         !.updatesBeforeSubscribed =
                             IF st.referenceId = 0 THEN << >> ELSE @]
        s2 == setState(s1, STATE_SUBSCRIBE_REQUESTED)
        s3 == [s2 EXCEPT !.currentStreamingContextId = st.streamingContextId]
    IN  Send(s3, Request("POST", referenceId, st.streamingContextId, st.Format, 0,
                         st.isDisposed))

subscribe(st) ==
    LET referenceId == st.referenceIdCounter
        s1 == [st EXCEPT !.referenceIdCounter = @ + 1,
                         !.referenceId = referenceId,
                         !.updatesBeforeSubscribed = << >>]
        s2 == setState(s1, STATE_SUBSCRIBE_REQUESTED)
        s3 == [s2 EXCEPT !.currentStreamingContextId = st.streamingContextId]
    IN  Send(s3, Request("POST", referenceId, st.streamingContextId, st.Format, 0,
                         st.isDisposed))

\* a slip: the DELETE is sent without entering UNSUBSCRIBE_REQUESTED
unsubscribe_keepsState(st) ==
    Send(st, Request("DELETE", st.referenceId, st.currentStreamingContextId, "", 0,
                     st.isDisposed))

\* a slip: the DELETE names the context of the connection, not the one the
\* subscription was created in
unsubscribe_usesConnectionContext(st) ==
    Send(setState(st, STATE_UNSUBSCRIBE_REQUESTED),
         Request("DELETE", st.referenceId, st.streamingContextId, "", 0,
                 st.isDisposed))

unsubscribe(st) ==
    Send(setState(st, STATE_UNSUBSCRIBE_REQUESTED),
         Request("DELETE", st.referenceId, st.currentStreamingContextId, "", 0,
                 st.isDisposed))

\* a slip: the PATCH is sent without entering PATCH_REQUESTED
modifyPatch_staysSubscribed(st, args) ==
    Send(st, Request("PATCH", st.referenceId, st.currentStreamingContextId, "", args,
                     st.isDisposed))

modifyPatch(st, args) ==
    Send(setState(st, STATE_PATCH_REQUESTED),
         Request("PATCH", st.referenceId, st.currentStreamingContextId, "", args,
                 st.isDisposed))

unsubscribeByTagPending(st) == setState(st, STATE_READY_FOR_UNSUBSCRIBE_BY_TAG)

\* the switch of performAction: what one action does in the current state
dispatchAction(st, queuedAction) ==
    CASE queuedAction.action = ACTION_SUBSCRIBE ->
            IF st.currentState = STATE_SUBSCRIBED THEN st
            ELSE IF st.currentState = STATE_UNSUBSCRIBED
                 THEN subscribe([st EXCEPT !.queue = clearPatches(@)])
                 ELSE st
      [] queuedAction.action = ACTION_MODIFY_PATCH ->
            IF st.currentState = STATE_SUBSCRIBED
            THEN modifyPatch(st, queuedAction.delta)
            ELSE st
      [] queuedAction.action = ACTION_UNSUBSCRIBE ->
            IF st.currentState = STATE_SUBSCRIBED THEN unsubscribe(st) ELSE st
      [] queuedAction.action = ACTION_UNSUBSCRIBE_BY_TAG_PENDING ->
            IF st.currentState = STATE_SUBSCRIBED \/ st.currentState = STATE_UNSUBSCRIBED
            THEN unsubscribeByTagPending(st)
            ELSE st

RECURSIVE performAction(_, _, _)
performAction(st, queuedAction, isLastQueuedAction) ==
    LET s1 == dispatchAction(st, queuedAction)
        s2 == IF isLastQueuedAction THEN Invoke(s1, "onQueueEmpty", 0, 0) ELSE s1
    IN  IF ~isEmpty(s2.queue) /\ ~IsTransitioning(s2)
        THEN LET d == dequeue(s2.queue)
             IN  performAction([s2 EXCEPT !.queue = d[2]], d[1], isEmpty(d[2]))
        ELSE s2

\* a slip: the connection is not looked at before performing the action
tryPerformAction_ignoresConnection(st, action, force, delta) ==
    LET s1 == IF st.networkErrorSubscribingTimer # 0 THEN clearTimeout(st) ELSE st
    IN  IF IsTransitioning(s1)
        THEN [s1 EXCEPT !.queue = enqueue(@, Item(action, force, delta))]
        ELSE performAction(s1, Item(action, force, delta), FALSE)

tryPerformAction(st, action, force, delta) ==
    LET s1 == IF st.networkErrorSubscribingTimer # 0 THEN clearTimeout(st) ELSE st
    IN  IF ~s1.connectionAvailable \/ IsTransitioning(s1)
        THEN [s1 EXCEPT !.queue = enqueue(@, Item(action, force, delta))]
        ELSE performAction(s1, Item(action, force, delta), FALSE)

\* a slip: the queue is left waiting
onReadyToPerformNextAction_waits(st) == st

onReadyToPerformNextAction(st) ==
    IF ~st.connectionAvailable \/ isEmpty(st.queue) THEN st
    ELSE LET d == dequeue(st.queue)
         IN  performAction([st EXCEPT !.queue = d[2]], d[1], isEmpty(d[2]))

onSubscribe(st) ==
    IF st.isDisposed THEN Throw(st)
    ELSE tryPerformAction(st, ACTION_SUBSCRIBE, FALSE, 0)

onUnsubscribe(st, forceUnsubscribe) ==
    tryPerformAction(st, ACTION_UNSUBSCRIBE, forceUnsubscribe, 0)

\* a slip: the new arguments are stored before the disposal is looked at
onModify_assignsFirst(st, newArgs, isPatch, patchArgsDelta) ==
    LET s1 == [st EXCEPT !.Arguments = newArgs]
    IN  IF st.isDisposed THEN Throw(s1)
        ELSE IF isPatch
             THEN IF patchArgsDelta = 0 THEN Throw(s1)
                  ELSE tryPerformAction(s1, ACTION_MODIFY_PATCH, FALSE, patchArgsDelta)
             ELSE onSubscribe(onUnsubscribe(s1, TRUE))

\* options = {isPatch, patchArgsDelta}; patchArgsDelta = 0 is "not defined"
onModify(st, newArgs, isPatch, patchArgsDelta) ==
    IF st.isDisposed THEN Throw(st)
    ELSE LET s1 == [st EXCEPT !.Arguments = newArgs]
         IN  IF isPatch
             THEN IF patchArgsDelta = 0 THEN Throw(s1)
                  ELSE tryPerformAction(s1, ACTION_MODIFY_PATCH, FALSE, patchArgsDelta)
             ELSE onSubscribe(onUnsubscribe(s1, TRUE))

\* history: the PATCH requests that were in flight when reset() gave them up
AbandonPatch(st) ==
    [st EXCEPT !.abandoned = @ \cup {i \in st.inflight : st.requests[i].kind = "PATCH"}]

\* a slip: the subscribe is asked for before the unsubscribe
reset_subscribesFirst(st) ==
    CASE st.currentState = STATE_UNSUBSCRIBED
           \/ st.currentState = STATE_UNSUBSCRIBE_REQUESTED -> st
      [] st.currentState = STATE_SUBSCRIBE_REQUESTED
           \/ st.currentState = STATE_SUBSCRIBED ->
            IF BitAnd(peekAction(st.queue), ACTION_UNSUBSCRIBE) # 0 THEN st
            ELSE onUnsubscribe(onSubscribe(st), TRUE)
      [] st.currentState = STATE_PATCH_REQUESTED ->
            onUnsubscribe(onSubscribe(setState(AbandonPatch(st), STATE_SUBSCRIBED)), TRUE)
      [] st.currentState = STATE_READY_FOR_UNSUBSCRIBE_BY_TAG -> st

\* a slip: the queue is not looked at before unsubscribing
reset_ignoresQueue(st) ==
    CASE st.currentState = STATE_UNSUBSCRIBED
           \/ st.currentState = STATE_UNSUBSCRIBE_REQUESTED -> st
      [] st.currentState = STATE_SUBSCRIBE_REQUESTED
           \/ st.currentState = STATE_SUBSCRIBED ->
            onSubscribe(onUnsubscribe(st, TRUE))
      [] st.currentState = STATE_PATCH_REQUESTED ->
            onSubscribe(onUnsubscribe(setState(AbandonPatch(st), STATE_SUBSCRIBED), TRUE))
      [] st.currentState = STATE_READY_FOR_UNSUBSCRIBE_BY_TAG -> st

\* a slip: a reset while the unsubscribe is awaited is not ignored
reset_whileUnsubscribing(st) ==
    CASE st.currentState = STATE_UNSUBSCRIBED -> st
      [] st.currentState = STATE_UNSUBSCRIBE_REQUESTED ->
            onSubscribe(onUnsubscribe(st, TRUE))
      [] st.currentState = STATE_SUBSCRIBE_REQUESTED
           \/ st.currentState = STATE_SUBSCRIBED ->
            IF BitAnd(peekAction(st.queue), ACTION_UNSUBSCRIBE) # 0 THEN st
            ELSE onSubscribe(onUnsubscribe(st, TRUE))
      [] st.currentState = STATE_PATCH_REQUESTED ->
            onSubscribe(onUnsubscribe(setState(AbandonPatch(st), STATE_SUBSCRIBED), TRUE))
      [] st.currentState = STATE_READY_FOR_UNSUBSCRIBE_BY_TAG -> st

reset(st) ==
    CASE st.currentState = STATE_UNSUBSCRIBED
           \/ st.currentState = STATE_UNSUBSCRIBE_REQUESTED -> st
      [] st.currentState = STATE_SUBSCRIBE_REQUESTED
           \/ st.currentState = STATE_SUBSCRIBED ->
            IF BitAnd(peekAction(st.queue), ACTION_UNSUBSCRIBE) # 0 THEN st
            ELSE onSubscribe(onUnsubscribe(st, TRUE))
      [] st.currentState = STATE_PATCH_REQUESTED ->
            onSubscribe(onUnsubscribe(setState(AbandonPatch(st), STATE_SUBSCRIBED), TRUE))
      [] st.currentState = STATE_READY_FOR_UNSUBSCRIBE_BY_TAG -> st


\* ParserFacade.getParser(format, ...): a parser for the format, the default
\* (JSON) one for a format it does not know; a fresh parser caches no schema
getParser(st, format) ==
    [st EXCEPT !.parser = IF format = FORMAT_PROTOBUF THEN FORMAT_PROTOBUF
                          ELSE FORMAT_JSON,
               !.parserSchema = FALSE]

\* history: the number of requests sent when a delta last failed to parse
LostSync(st) == [st EXCEPT !.resync = Len(st.requests)]

\* message = {id, bad}: parser.parse throws on a message marked bad
processUpdate(st, message, type) ==
    IF message.bad THEN reset(LostSync(st))
    ELSE Invoke(st, "onUpdate", message.id, type)

\* a slip: an update is delivered whatever the state, never buffered
onStreamingData_deliversAtOnce(st, message) ==
    [processUpdate(onActivity(st), message, UPDATE_TYPE_DELTA) EXCEPT !.thrown = FALSE]

\* the value returned to the dispatcher is left in st.returned
onStreamingData(st, message) ==
    LET s1 == onActivity(st)
        deliver == [processUpdate(s1, message, UPDATE_TYPE_DELTA) EXCEPT !.thrown = FALSE]
    IN  CASE s1.currentState = STATE_UNSUBSCRIBE_REQUESTED -> s1
          [] s1.currentState = STATE_UNSUBSCRIBED -> [s1 EXCEPT !.returned = "false"]
          [] s1.currentState = STATE_SUBSCRIBE_REQUESTED ->
                [s1 EXCEPT !.updatesBeforeSubscribed = Append(@, message)]
          [] s1.currentState = STATE_SUBSCRIBED
               \/ s1.currentState = STATE_PATCH_REQUESTED -> deliver
          [] OTHER -> deliver

\* a slip: the schema name the parser has cached is not looked at
processSnapshot_ignoresCachedSchema(st, response) ==
    LET s1 == IF response.Schema /\ response.SchemaName
              THEN [st EXCEPT !.SchemaName = TRUE, !.parserSchema = TRUE]
              ELSE st
        s2 == IF ~response.SchemaName
              THEN LET s3 == [s1 EXCEPT !.SchemaName = s1.parserSchema]
                   IN  IF s3.Format = FORMAT_PROTOBUF
                       THEN getParser(s3, FORMAT_JSON)
                       ELSE s3
              ELSE s1
    IN  Invoke(s2, "onUpdate", response.Snapshot, UPDATE_TYPE_SNAPSHOT)

\* response = {InactivityTimeout, Schema, SchemaName, Snapshot}
processSnapshot(st, response) ==
    LET s1 == IF response.Schema /\ response.SchemaName
              THEN [st EXCEPT !.SchemaName = TRUE, !.parserSchema = TRUE]
              ELSE st
        s2 == IF ~response.SchemaName
              THEN LET s3 == [s1 EXCEPT !.SchemaName = s1.parserSchema]
                   IN  IF s3.Format = FORMAT_PROTOBUF /\ ~s3.SchemaName
                       THEN getParser(s3, FORMAT_JSON)
                       ELSE s3
              ELSE s1
    IN  Invoke(s2, "onUpdate", response.Snapshot, UPDATE_TYPE_SNAPSHOT)

RECURSIVE replayUpdates(_, _)
replayUpdates(st, i) ==
    IF i > Len(st.updatesBeforeSubscribed) THEN st
    ELSE replayUpdates(
            [onStreamingData(st, st.updatesBeforeSubscribed[i]) EXCEPT !.returned = st.returned],
            i + 1)

\* a slip: the snapshot and the buffer are delivered whatever is queued
onSubscribeSuccess_alwaysReplays(st, referenceId, response) ==
    IF referenceId # st.referenceId THEN st
    ELSE LET s1 == setState(st, STATE_SUBSCRIBED)
             s2 == onActivity([s1 EXCEPT !.inactivityTimeout = response.InactivityTimeout])
             s3 == Invoke(s2, "onSubscriptionCreated", 0, 0)
             s4 == replayUpdates(processSnapshot(s3, response), 1)
         IN  onReadyToPerformNextAction([s4 EXCEPT !.updatesBeforeSubscribed = << >>])

onSubscribeSuccess(st, referenceId, response) ==
    IF referenceId # st.referenceId THEN st
    ELSE LET s1 == setState(st, STATE_SUBSCRIBED)
             s2 == onActivity([s1 EXCEPT !.inactivityTimeout = response.InactivityTimeout])
             s3 == Invoke(s2, "onSubscriptionCreated", 0, 0)
             s4 == IF peekAction(s3.queue) # ACTION_UNSUBSCRIBE
                   THEN replayUpdates(processSnapshot(s3, response), 1)
                   ELSE s3
         IN  onReadyToPerformNextAction([s4 EXCEPT !.updatesBeforeSubscribed = << >>])

cleanUpLeftOverSubscription(st, referenceId) ==
    Send(st, Request("CLEANUP", referenceId, st.currentStreamingContextId, "", 0,
                     st.isDisposed))

\* a slip: a network error is handled like any other error
subscribeErrorTail_noTimer(st, response, willUnsubscribe) ==
    onReadyToPerformNextAction(
        IF ~willUnsubscribe THEN Invoke(st, "onError", 0, 0) ELSE st)

\* a slip: the error callback is invoked although an unsubscribe is queued
subscribeErrorTail_alwaysReports(st, response, willUnsubscribe) ==
    IF response.isNetworkError /\ ~willUnsubscribe
    THEN Invoke(setTimeout(st), "onNetworkError", 0, 0)
    ELSE onReadyToPerformNextAction(Invoke(st, "onError", 0, 0))

\* what onSubscribeError does after the duplicate-key and the
\* unsupported-format branches did not return
subscribeErrorTail(st, response, willUnsubscribe) ==
    IF response.isNetworkError /\ ~willUnsubscribe
    THEN Invoke(setTimeout(st), "onNetworkError", 0, 0)
    ELSE onReadyToPerformNextAction(
            IF ~willUnsubscribe THEN Invoke(st, "onError", 0, 0) ELSE st)

\* a slip: the subscribe is retried in the format that was refused
onSubscribeError_keepsFormat(st, referenceId, response) ==
    IF referenceId # st.referenceId THEN st
    ELSE LET willUnsubscribe == BitAnd(peekAction(st.queue), ACTION_UNSUBSCRIBE) # 0
             s1 == setState(st, STATE_UNSUBSCRIBED)
             s2 == IF response.isDupe THEN cleanUpLeftOverSubscription(s1, referenceId)
                   ELSE s1
             downgrade == response.isUnsupported /\ s2.Format = FORMAT_PROTOBUF
         IN  IF (response.isDupe \/ downgrade) /\ ~willUnsubscribe
             THEN tryPerformAction(s2, ACTION_SUBSCRIBE, FALSE, 0)
             ELSE subscribeErrorTail(s2, response, willUnsubscribe)

\* response = {isDupe, isUnsupported, isNetworkError}
onSubscribeError(st, referenceId, response) ==
    IF referenceId # st.referenceId THEN st
    ELSE LET willUnsubscribe == BitAnd(peekAction(st.queue), ACTION_UNSUBSCRIBE) # 0
             s1 == setState(st, STATE_UNSUBSCRIBED)
             s2 == IF response.isDupe THEN cleanUpLeftOverSubscription(s1, referenceId)
                   ELSE s1
             downgrade == response.isUnsupported /\ s2.Format = FORMAT_PROTOBUF
             s3 == IF downgrade
                   THEN getParser([s2 EXCEPT !.Format = FORMAT_JSON], FORMAT_JSON)
                   ELSE s2
         IN  IF response.isDupe /\ ~willUnsubscribe
             THEN tryPerformAction(s2, ACTION_SUBSCRIBE, FALSE, 0)
             ELSE IF downgrade /\ ~willUnsubscribe
                  THEN tryPerformAction(s3, ACTION_SUBSCRIBE, FALSE, 0)
                  ELSE subscribeErrorTail(s3, response, willUnsubscribe)

onUnsubscribeSuccess(st, referenceId) ==
    IF referenceId # st.referenceId THEN st
    ELSE onReadyToPerformNextAction(setState(st, STATE_UNSUBSCRIBED))

\* a slip: the queue is not looked at after an unsubscribe error
onUnsubscribeError_leavesQueue(st, referenceId) ==
    IF referenceId # st.referenceId THEN st
    ELSE setState(st, STATE_UNSUBSCRIBED)

onUnsubscribeError(st, referenceId) ==
    IF referenceId # st.referenceId THEN st
    ELSE onReadyToPerformNextAction(setState(st, STATE_UNSUBSCRIBED))

\* a slip: the response is handled whatever reference id it was sent with
onModifyPatchSuccess_noStaleCheck(st, referenceId) ==
    onReadyToPerformNextAction(setState(st, STATE_SUBSCRIBED))

onModifyPatchSuccess(st, referenceId) ==
    IF referenceId # st.referenceId THEN st
    ELSE onReadyToPerformNextAction(setState(st, STATE_SUBSCRIBED))

onModifyPatchError(st, referenceId) ==
    IF referenceId # st.referenceId THEN st
    ELSE onReadyToPerformNextAction(setState(st, STATE_SUBSCRIBED))

\* the callback given to setTimeout in onSubscribeError
onNetworkErrorTimeout(st) ==
    tryPerformAction([st EXCEPT !.networkErrorSubscribingTimer = 0],
                     ACTION_SUBSCRIBE, FALSE, 0)

dispose(st) == [st EXCEPT !.isDisposed = TRUE]

onConnectionUnavailable(st) ==
    LET s1 == [st EXCEPT !.connectionAvailable = FALSE]
    IN  IF s1.networkErrorSubscribingTimer # 0
        THEN tryPerformAction(clearTimeout(s1), ACTION_SUBSCRIBE, FALSE, 0)
        ELSE s1

onConnectionAvailable(st) ==
    LET s1 == [st EXCEPT !.connectionAvailable = TRUE]
    IN  IF ~IsTransitioning(s1) THEN onReadyToPerformNextAction(s1) ELSE s1

onHeartbeat(st) == onActivity(st)

onUnsubscribeByTagPending(st) ==
    tryPerformAction(st, ACTION_UNSUBSCRIBE_BY_TAG_PENDING, FALSE, 0)

onUnsubscribeByTagComplete(st) ==
    onReadyToPerformNextAction(setState(st, STATE_UNSUBSCRIBED))

isReadyForUnsubscribeByTag(st) == st.currentState = STATE_READY_FOR_UNSUBSCRIBE_BY_TAG

\* the values timeTillOrphaned returns: Infinity, a number of milliseconds, or
\* NaN when the arithmetic meets a field that was never assigned
Infinity == [kind |-> "Infinity", value |-> 0]

NaN == [kind |-> "NaN", value |-> 0]

Number(n) == [kind |-> "number", value |-> n]

\* inactivityTimeout is assigned by onSubscribeSuccess only: until then it is
\* undefined (-1 here), undefined === 0 is false and undefined * 1000 is NaN
timeTillOrphaned(st, now) ==
    IF \/ ~st.connectionAvailable
       \/ st.inactivityTimeout = 0
       \/ st.currentState = STATE_UNSUBSCRIBED
       \/ st.currentState = STATE_UNSUBSCRIBE_REQUESTED
       \/ st.currentState = STATE_SUBSCRIBE_REQUESTED
    THEN Infinity
    ELSE IF st.inactivityTimeout = -1 THEN NaN
         ELSE Number(st.inactivityTimeout * 1000 - (now - st.latestActivity))


\* ------------------------------------------------------------------------
\* State
\* ------------------------------------------------------------------------
VARIABLES
    currentState, queue, referenceId, referenceIdCounter,
    streamingContextId, currentStreamingContextId,
    connectionAvailable, isDisposed,
    networkErrorSubscribingTimer, timers,
    updatesBeforeSubscribed,
    Format, parser, parserSchema, SchemaName, Arguments,
    inactivityTimeout, latestActivity, clock,
    requests, inflight,
    calls, thrown, returned, op, tagReady,
    abandoned, resync, bound

vars == << currentState, queue, referenceId, referenceIdCounter,
           streamingContextId, currentStreamingContextId,
           connectionAvailable, isDisposed,
           networkErrorSubscribingTimer, timers,
           updatesBeforeSubscribed,
           Format, parser, parserSchema, SchemaName, Arguments,
           inactivityTimeout, latestActivity, clock,
           requests, inflight,
           calls, thrown, returned, op, tagReady,
           abandoned, resync, bound >>

\* the subscription object as the operators above take it; calls, thrown and
\* returned start empty at every entry into the object
Self ==
    [currentState |-> currentState, queue |-> queue, referenceId |-> referenceId,
     referenceIdCounter |-> referenceIdCounter,
     streamingContextId |-> streamingContextId,
     currentStreamingContextId |-> currentStreamingContextId,
     connectionAvailable |-> connectionAvailable, isDisposed |-> isDisposed,
     networkErrorSubscribingTimer |-> networkErrorSubscribingTimer, timers |-> timers,
     updatesBeforeSubscribed |-> updatesBeforeSubscribed,
     Format |-> Format, parser |-> parser, parserSchema |-> parserSchema,
     SchemaName |-> SchemaName, Arguments |-> Arguments,
     inactivityTimeout |-> inactivityTimeout, latestActivity |-> latestActivity,
     clock |-> clock, requests |-> requests, inflight |-> inflight,
     calls |-> << >>, thrown |-> FALSE, returned |-> "undefined",
     abandoned |-> abandoned, resync |-> resync]

\* bound holds the bounds of the explored behaviours: a step that would
\* exceed one of them is not taken
WithinBounds(st) ==
    /\ Len(st.requests) <= bound.http
    /\ Len(st.queue) <= bound.queue
    /\ Len(st.updatesBeforeSubscribed) <= bound.buffer

\* the events after which a lost synchronisation is expected to be repaired:
\* further data and successful responses, nothing else
RepairOps ==
    {"onStreamingData", "onSubscribeSuccess", "onUnsubscribeSuccess",
     "onModifyPatchSuccess", "cleanUpSettled"}

\* the host has seen the subscription become ready for unsubscribe-by-tag
\* and has not yet completed the bulk unsubscribe
SeenReady(st) ==
    \E i \in 1..Len(st.calls) :
        st.calls[i].cb = "stateChanged" /\ st.calls[i].x = STATE_READY_FOR_UNSUBSCRIBE_BY_TAG

Op(name, ref, arg) ==
    [name |-> name, ref |-> ref, arg |-> arg, preState |-> currentState]

\* one entry into the object: st is the object after the call
Commit(st, name, ref, arg) ==
    /\ WithinBounds(st)
    /\ currentState' = st.currentState
    /\ queue' = st.queue
    /\ referenceId' = st.referenceId
    /\ referenceIdCounter' = st.referenceIdCounter
    /\ streamingContextId' = st.streamingContextId
    /\ currentStreamingContextId' = st.currentStreamingContextId
    /\ connectionAvailable' = st.connectionAvailable
    /\ isDisposed' = st.isDisposed
    /\ networkErrorSubscribingTimer' = st.networkErrorSubscribingTimer
    /\ timers' = st.timers
    /\ updatesBeforeSubscribed' = st.updatesBeforeSubscribed
    /\ Format' = st.Format
    /\ parser' = st.parser
    /\ parserSchema' = st.parserSchema
    /\ SchemaName' = st.SchemaName
    /\ Arguments' = st.Arguments
    /\ inactivityTimeout' = st.inactivityTimeout
    /\ latestActivity' = st.latestActivity
    /\ clock' = st.clock
    /\ requests' = st.requests
    /\ inflight' = st.inflight
    /\ calls' = st.calls
    /\ thrown' = st.thrown
    /\ returned' = st.returned
    /\ op' = Op(name, ref, arg)
    /\ tagReady' = IF name = "onUnsubscribeByTagComplete" THEN FALSE
                   ELSE (tagReady \/ SeenReady(st))
    /\ abandoned' = st.abandoned
    /\ resync' = IF name \in RepairOps THEN st.resync ELSE 0
    /\ bound' = bound

Formats == {FORMAT_PROTOBUF, FORMAT_JSON}

\* streaming messages: two payloads that parse and one that does not
Messages == [id : {1, 2}, bad : {FALSE}] \cup [id : {3}, bad : {TRUE}]

\* subscribe responses without a schema, and all of them
PlainResponses ==
    [InactivityTimeout : {1}, Schema : {FALSE}, SchemaName : {FALSE}, Snapshot : {0}]

SubscribeResponses ==
    [InactivityTimeout : {0, 1}, Schema : BOOLEAN, SchemaName : BOOLEAN, Snapshot : {0}]

\* patch deltas and subscription arguments
Deltas == {1, 2}

ArgumentValues == {1, 2}

ContextIds == {1, 2}

ErrorResponses == [isDupe : BOOLEAN, isUnsupported : BOOLEAN, isNetworkError : BOOLEAN]

\* the state after the constructor: Subscription(streamingContextId, transport,
\* servicePath, url, subscriptionArgs, onSubscriptionCreated, options)
Constructed(formats, bounds) ==
    /\ currentState = STATE_UNSUBSCRIBED
    /\ queue = << >>
    /\ referenceId = 0
    /\ referenceIdCounter = 1
    /\ streamingContextId = 1
    /\ currentStreamingContextId = 0
    /\ connectionAvailable = TRUE
    /\ isDisposed = FALSE
    /\ networkErrorSubscribingTimer = 0
    /\ timers = {}
    /\ updatesBeforeSubscribed = << >>
    /\ Format \in formats
    /\ parser = Format
    /\ parserSchema = FALSE
    /\ SchemaName = FALSE
    /\ Arguments = 1
    /\ inactivityTimeout = -1
    /\ latestActivity = 0
    /\ clock = 0
    /\ requests = << >>
    /\ inflight = {}
    /\ calls = << Call("stateChanged", STATE_UNSUBSCRIBED, 0) >>
    /\ thrown = FALSE
    /\ returned = "undefined"
    /\ op = [name |-> "constructor", ref |-> 0, arg |-> 0,
             preState |-> STATE_UNSUBSCRIBED]
    /\ tagReady = FALSE
    /\ abandoned = {}
    /\ resync = 0
    /\ bound = bounds

Init == Constructed({FORMAT_JSON}, [http |-> MaxHttp, queue |-> MaxQueue, buffer |-> MaxBuffer])

\* ------------------------------------------------------------------------
\* Actions: the public methods, called by the host
\* ------------------------------------------------------------------------
OnSubscribe == Commit(onSubscribe(Self), "onSubscribe", 0, 0)

OnUnsubscribe ==
    \E force \in BOOLEAN :
        Commit(onUnsubscribe(Self, force), "onUnsubscribe", 0, IF force THEN 1 ELSE 0)

\* onModify(newArgs, {isPatch, patchArgsDelta}); delta 0 is no patchArgsDelta
OnModifyOf(args, deltas) ==
    \E newArgs \in args, isPatch \in BOOLEAN, delta \in deltas :
        /\ ~isPatch => delta = 0
        /\ Commit(onModify(Self, newArgs, isPatch, delta), "onModify", 0,
                  IF isPatch THEN 1 + delta ELSE 0)

OnModify == OnModifyOf({1}, {0, 1})

Reset == Commit(reset(Self), "reset", 0, 0)

Dispose == Commit(dispose(Self), "dispose", 0, 0)

\* the op records whether a retry timer was pending at the call
OnConnectionUnavailable ==
    Commit(onConnectionUnavailable(Self), "onConnectionUnavailable", 0,
           IF networkErrorSubscribingTimer # 0 THEN 1 ELSE 0)

OnConnectionAvailable ==
    Commit(onConnectionAvailable(Self), "onConnectionAvailable", 0, 0)

OnStreamingDataOf(messages) ==
    \E message \in messages :
        Commit(onStreamingData(Self, message), "onStreamingData", 0, message.id)

OnStreamingData == OnStreamingDataOf(Messages)

OnHeartbeat == Commit(onHeartbeat(Self), "onHeartbeat", 0, 0)

OnUnsubscribeByTagPending ==
    Commit(onUnsubscribeByTagPending(Self), "onUnsubscribeByTagPending", 0, 0)

\* the host completes the bulk unsubscribe only after it has seen the
\* subscription ready for it
OnUnsubscribeByTagComplete ==
    /\ tagReady
    /\ Commit(onUnsubscribeByTagComplete(Self), "onUnsubscribeByTagComplete", 0, 0)

\* the host moves to another streaming connection
ContextChanged ==
    \E ctx \in ContextIds :
        /\ ctx # streamingContextId
        /\ Commit([Self EXCEPT !.streamingContextId = ctx], "contextChanged", 0, ctx)


\* ------------------------------------------------------------------------
\* Actions: the transport settles the promise of request i, the timer fires
\* ------------------------------------------------------------------------
Settled(i) == [Self EXCEPT !.inflight = @ \ {i}]

SubscribeSuccessOf(responses) ==
    \E i \in inflight, response \in responses :
        /\ requests[i].kind = "POST"
        /\ Commit(onSubscribeSuccess(Settled(i), requests[i].ReferenceId, response),
                  "onSubscribeSuccess", requests[i].ReferenceId, i)

SubscribeSuccess == SubscribeSuccessOf(PlainResponses)

\* the error response as a number: 1 duplicate key, 2 unsupported format,
\* 4 network error, added up
ErrorCode(response) ==
    (IF response.isDupe THEN 1 ELSE 0) + (IF response.isUnsupported THEN 2 ELSE 0)
        + (IF response.isNetworkError THEN 4 ELSE 0)

SubscribeError ==
    \E i \in inflight, response \in ErrorResponses :
        /\ requests[i].kind = "POST"
        /\ Commit(onSubscribeError(Settled(i), requests[i].ReferenceId, response),
                  "onSubscribeError", requests[i].ReferenceId, ErrorCode(response))

UnsubscribeSuccess ==
    \E i \in inflight :
        /\ requests[i].kind = "DELETE"
        /\ Commit(onUnsubscribeSuccess(Settled(i), requests[i].ReferenceId),
                  "onUnsubscribeSuccess", requests[i].ReferenceId, i)

UnsubscribeError ==
    \E i \in inflight :
        /\ requests[i].kind = "DELETE"
        /\ Commit(onUnsubscribeError(Settled(i), requests[i].ReferenceId),
                  "onUnsubscribeError", requests[i].ReferenceId, i)

ModifyPatchSuccess ==
    \E i \in inflight :
        /\ requests[i].kind = "PATCH"
        /\ Commit(onModifyPatchSuccess(Settled(i), requests[i].ReferenceId),
                  "onModifyPatchSuccess", requests[i].ReferenceId, i)

ModifyPatchError ==
    \E i \in inflight :
        /\ requests[i].kind = "PATCH"
        /\ Commit(onModifyPatchError(Settled(i), requests[i].ReferenceId),
                  "onModifyPatchError", requests[i].ReferenceId, i)

\* the cleanup DELETE has no success handler and its catch only logs
CleanUpSettled ==
    \E i \in inflight :
        /\ requests[i].kind = "CLEANUP"
        /\ Commit(Settled(i), "cleanUpSettled", requests[i].ReferenceId, i)

NetworkErrorTimeout ==
    \E t \in timers :
        Commit(onNetworkErrorTimeout([Self EXCEPT !.timers = @ \ {t}]),
               "onNetworkErrorTimeout", 0, t)

Next ==
    \/ OnSubscribe
    \/ OnUnsubscribe
    \/ OnModify
    \/ Reset
    \/ OnConnectionUnavailable
    \/ OnConnectionAvailable
    \/ OnUnsubscribeByTagPending
    \/ OnUnsubscribeByTagComplete
    \/ SubscribeSuccess
    \/ SubscribeError
    \/ UnsubscribeSuccess
    \/ UnsubscribeError
    \/ ModifyPatchSuccess
    \/ ModifyPatchError
    \/ CleanUpSettled
    \/ NetworkErrorTimeout

Spec == Init /\ [][Next]_vars

\* ------------------------------------------------------------------------
\* The data path: streaming messages arrive while the caller subscribes,
\* unsubscribes, patches, and the server resets
\* ------------------------------------------------------------------------
MaxDataHttp == 3
MaxDataQueue == 2
MaxDataBuffer == 2

InitData ==
    Constructed({FORMAT_JSON},
                [http |-> MaxDataHttp, queue |-> MaxDataQueue, buffer |-> MaxDataBuffer])

NextData ==
    \/ OnSubscribe
    \/ OnUnsubscribe
    \/ OnModifyOf({1}, {1})
    \/ Reset
    \/ OnConnectionUnavailable
    \/ OnConnectionAvailable
    \/ OnStreamingData
    \/ SubscribeSuccess
    \/ SubscribeError
    \/ UnsubscribeSuccess
    \/ UnsubscribeError
    \/ ModifyPatchSuccess
    \/ ModifyPatchError
    \/ CleanUpSettled

SpecData == InitData /\ [][NextData]_vars

\* ------------------------------------------------------------------------
\* Disposal: the host disposes the subscription at any moment
\* ------------------------------------------------------------------------
MaxDisposalHttp == 3
MaxDisposalQueue == 2

InitDisposal ==
    Constructed({FORMAT_JSON},
                [http |-> MaxDisposalHttp, queue |-> MaxDisposalQueue, buffer |-> 0])

NextDisposal ==
    \/ OnSubscribe
    \/ OnUnsubscribe
    \/ OnModifyOf(ArgumentValues, {0, 1})
    \/ Reset
    \/ Dispose
    \/ OnConnectionUnavailable
    \/ OnConnectionAvailable
    \/ SubscribeSuccess
    \/ SubscribeError
    \/ UnsubscribeSuccess
    \/ UnsubscribeError
    \/ ModifyPatchSuccess
    \/ ModifyPatchError
    \/ CleanUpSettled
    \/ NetworkErrorTimeout

SpecDisposal == InitDisposal /\ [][NextDisposal]_vars


\* Late responses: the callers, the bulk unsubscribe and the responses, deep
\* enough for a response to find the reference id changed since its request.
MaxStaleHttp == 5
MaxStaleQueue == 2
MaxStaleBuffer == 1

InitStale ==
    Constructed({FORMAT_JSON},
                [http |-> MaxStaleHttp, queue |-> MaxStaleQueue, buffer |-> MaxStaleBuffer])

NextStale ==
    \/ OnSubscribe
    \/ OnUnsubscribe
    \/ OnModifyOf({1}, {1})
    \/ Reset
    \/ OnStreamingDataOf({[id |-> 1, bad |-> FALSE]})
    \/ OnUnsubscribeByTagPending
    \/ OnUnsubscribeByTagComplete
    \/ SubscribeSuccess
    \/ SubscribeError
    \/ UnsubscribeSuccess
    \/ UnsubscribeError
    \/ ModifyPatchSuccess
    \/ ModifyPatchError
    \/ CleanUpSettled
    \/ NetworkErrorTimeout

SpecStale == InitStale /\ [][NextStale]_vars

\* Formats: a subscription constructed for either format, subscribe
\* responses with and without a schema, subscribe errors of every kind.
MaxFormatHttp == 3
MaxFormatQueue == 2
MaxFormatBuffer == 1

InitFormat ==
    Constructed(Formats,
                [http |-> MaxFormatHttp, queue |-> MaxFormatQueue,
                 buffer |-> MaxFormatBuffer])

NextFormat ==
    \/ OnSubscribe
    \/ OnUnsubscribe
    \/ Reset
    \/ OnConnectionUnavailable
    \/ OnConnectionAvailable
    \/ OnStreamingData
    \/ SubscribeSuccessOf(SubscribeResponses)
    \/ SubscribeError
    \/ UnsubscribeSuccess
    \/ UnsubscribeError
    \/ CleanUpSettled
    \/ NetworkErrorTimeout

SpecFormat == InitFormat /\ [][NextFormat]_vars

\* ------------------------------------------------------------------------
\* Activity: time passes between the messages and heartbeats of the server
\* ------------------------------------------------------------------------
MaxActivityHttp == 3
MaxActivityQueue == 1
MaxActivityBuffer == 1
MaxClock == 2

\* new Date().getTime() returns a later value
Tick ==
    /\ clock < MaxClock
    /\ Commit([Self EXCEPT !.clock = @ + 1], "tick", 0, 0)

InitActivity ==
    Constructed({FORMAT_JSON},
                [http |-> MaxActivityHttp, queue |-> MaxActivityQueue,
                 buffer |-> MaxActivityBuffer])

NextActivity ==
    \/ OnSubscribe
    \/ OnUnsubscribe
    \/ OnModifyOf({1}, {1})
    \/ OnStreamingData
    \/ OnHeartbeat
    \/ Tick
    \/ SubscribeSuccess
    \/ SubscribeError
    \/ UnsubscribeSuccess
    \/ UnsubscribeError
    \/ ModifyPatchSuccess
    \/ ModifyPatchError
    \/ CleanUpSettled

SpecActivity == InitActivity /\ [][NextActivity]_vars

\* ------------------------------------------------------------------------
\* Orphan detection: the orphan finder asks for the time left while the
\* subscription lives, the server is heard from and time passes
\* ------------------------------------------------------------------------
MaxOrphanHttp == 3
MaxOrphanQueue == 1
MaxNow == 3

\* subscribe responses with and without an inactivity timeout
OrphanResponses ==
    [InactivityTimeout : {0, 1}, Schema : {FALSE}, SchemaName : {FALSE}, Snapshot : {0}]

TimeTillOrphaned ==
    \E now \in 0..MaxNow :
        Commit([Self EXCEPT !.returned = timeTillOrphaned(Self, now)],
               "timeTillOrphaned", 0, now)

InitOrphan ==
    Constructed({FORMAT_JSON},
                [http |-> MaxOrphanHttp, queue |-> MaxOrphanQueue, buffer |-> 0])

NextOrphan ==
    \/ OnSubscribe
    \/ OnUnsubscribe
    \/ OnModifyOf({1}, {1})
    \/ OnConnectionUnavailable
    \/ OnConnectionAvailable
    \/ OnHeartbeat
    \/ Tick
    \/ OnUnsubscribeByTagPending
    \/ OnUnsubscribeByTagComplete
    \/ TimeTillOrphaned
    \/ SubscribeSuccessOf(OrphanResponses)
    \/ UnsubscribeSuccess
    \/ ModifyPatchSuccess

SpecOrphan == InitOrphan /\ [][NextOrphan]_vars

\* ------------------------------------------------------------------------
\* The shared counter: other subscriptions of the process subscribe too and
\* take their reference ids from the same module-level counter
\* ------------------------------------------------------------------------
MaxCounterHttp == 4
MaxCounterQueue == 1
MaxCounter == 5

\* subscribe() of another Subscription object: String(referenceIdCounter++)
OtherSubscribe ==
    /\ referenceIdCounter < MaxCounter
    /\ Commit([Self EXCEPT !.referenceIdCounter = @ + 1], "otherSubscribe", 0,
              referenceIdCounter)

InitCounter ==
    Constructed({FORMAT_JSON},
                [http |-> MaxCounterHttp, queue |-> MaxCounterQueue, buffer |-> 0])

NextCounter ==
    \/ OnSubscribe
    \/ OnUnsubscribe
    \/ OnModify
    \/ Reset
    \/ OtherSubscribe
    \/ SubscribeSuccess
    \/ SubscribeError
    \/ UnsubscribeSuccess
    \/ ModifyPatchSuccess
    \/ CleanUpSettled
    \/ NetworkErrorTimeout

SpecCounter == InitCounter /\ [][NextCounter]_vars

\* ------------------------------------------------------------------------
\* Coalescing: the callers act, the connection comes and goes and every
\* request succeeds
\* ------------------------------------------------------------------------
MaxCoalesceHttp == 3
MaxCoalesceQueue == 2

InitCoalesce ==
    Constructed({FORMAT_JSON},
                [http |-> MaxCoalesceHttp, queue |-> MaxCoalesceQueue, buffer |-> 0])

NextCoalesce ==
    \/ OnSubscribe
    \/ OnUnsubscribe
    \/ OnModify
    \/ OnConnectionUnavailable
    \/ OnConnectionAvailable
    \/ SubscribeSuccess
    \/ UnsubscribeSuccess
    \/ ModifyPatchSuccess

SpecCoalesce == InitCoalesce /\ [][NextCoalesce]_vars

\* ------------------------------------------------------------------------
\* Bursts of resets: the server resets at any moment, any number of times,
\* while the caller has up to three actions queued
\* ------------------------------------------------------------------------
MaxBurstHttp == 3
MaxBurstQueue == 3

InitBurst ==
    Constructed({FORMAT_JSON},
                [http |-> MaxBurstHttp, queue |-> MaxBurstQueue, buffer |-> 0])

NextBurst ==
    \/ OnSubscribe
    \/ OnUnsubscribe
    \/ OnModifyOf({1}, {1})
    \/ Reset
    \/ OnConnectionUnavailable
    \/ OnConnectionAvailable
    \/ SubscribeSuccess
    \/ UnsubscribeSuccess
    \/ ModifyPatchSuccess

SpecBurst == InitBurst /\ [][NextBurst]_vars

\* ------------------------------------------------------------------------
\* The queue on its own: its operations called in any order on the queue of
\* a subscription that does nothing else.
\* ------------------------------------------------------------------------
MaxItems == 4
MaxDelta == 2

\* the items tryPerformAction builds: args is {force} for an UNSUBSCRIBE,
\* the patch delta for a MODIFY_PATCH, undefined otherwise
QueueItems ==
    {Item(ACTION_SUBSCRIBE, FALSE, 0), Item(ACTION_UNSUBSCRIBE_BY_TAG_PENDING, FALSE, 0)}
      \cup {Item(ACTION_UNSUBSCRIBE, force, 0) : force \in BOOLEAN}
      \cup {Item(ACTION_MODIFY_PATCH, FALSE, delta) : delta \in 1..MaxDelta}

Enqueue ==
    \E queuedItem \in QueueItems :
        Commit([Self EXCEPT !.queue = enqueue(@, queuedItem)], "enqueue",
               IF queuedItem.force THEN 1 ELSE 0, queuedItem.action)

\* the op records the length of the queue dequeue is called on
Dequeue ==
    IF isEmpty(queue)
    THEN Commit([Self EXCEPT !.returned = "undefined"], "dequeue", 0, 0)
    ELSE Commit([Self EXCEPT !.queue = dequeue(@)[2], !.returned = dequeue(queue)[1]],
                "dequeue", 0, Len(queue))

ClearPatches == Commit([Self EXCEPT !.queue = clearPatches(@)], "clearPatches", 0, 0)

QueueReset == Commit([Self EXCEPT !.queue = << >>], "queue.reset", 0, 0)

InitQueue ==
    Constructed({FORMAT_JSON}, [http |-> 0, queue |-> MaxItems, buffer |-> 0])

NextQueue ==
    \/ Enqueue
    \/ Dequeue
    \/ ClearPatches
    \/ QueueReset

SpecQueue == InitQueue /\ [][NextQueue]_vars

\* ------------------------------------------------------------------------
\* The subscription on a connection whose context id changes.
\* ------------------------------------------------------------------------
MaxContextHttp == 4
MaxContextQueue == 1

InitContext ==
    Constructed({FORMAT_JSON},
                [http |-> MaxContextHttp, queue |-> MaxContextQueue, buffer |-> 0])

NextContext ==
    \/ OnSubscribe
    \/ OnUnsubscribe
    \/ OnModifyOf({1}, {1})
    \/ Reset
    \/ ContextChanged
    \/ SubscribeSuccess
    \/ SubscribeError
    \/ UnsubscribeSuccess
    \/ ModifyPatchSuccess
    \/ CleanUpSettled
    \/ NetworkErrorTimeout

SpecContext == InitContext /\ [][NextContext]_vars

\* ------------------------------------------------------------------------
\* The caller subscribes once and then patches the subscription again and
\* again; the connection comes and goes and the patches succeed or fail.
\* ------------------------------------------------------------------------
MaxPatchHttp == 4
MaxPatchQueue == 3

InitPatch ==
    Constructed({FORMAT_JSON},
                [http |-> MaxPatchHttp, queue |-> MaxPatchQueue, buffer |-> 0])

NextPatch ==
    \/ OnSubscribe
    \/ OnModifyOf({1}, {1, 2})
    \/ OnConnectionUnavailable
    \/ OnConnectionAvailable
    \/ SubscribeSuccess
    \/ ModifyPatchSuccess
    \/ ModifyPatchError

SpecPatch == InitPatch /\ [][NextPatch]_vars

\* ------------------------------------------------------------------------
\* Subscribe attempts that fail or are given up while deltas arrive; each
\* delta is labelled with the reference id of the last POST issued before
\* it was received.
\* ------------------------------------------------------------------------
MaxReplayHttp == 4
MaxReplayQueue == 2
MaxReplayBuffer == 2

OnStampedData == OnStreamingDataOf({[id |-> referenceId, bad |-> FALSE]})

InitReplay ==
    Constructed({FORMAT_JSON},
                [http |-> MaxReplayHttp, queue |-> MaxReplayQueue,
                 buffer |-> MaxReplayBuffer])

NextReplay ==
    \/ OnSubscribe
    \/ OnUnsubscribe
    \/ Reset
    \/ OnStampedData
    \/ OnUnsubscribeByTagPending
    \/ OnUnsubscribeByTagComplete
    \/ SubscribeSuccess
    \/ SubscribeError
    \/ UnsubscribeSuccess
    \/ CleanUpSettled
    \/ NetworkErrorTimeout

SpecReplay == InitReplay /\ [][NextReplay]_vars

\* ------------------------------------------------------------------------
\* The caller subscribes and unsubscribes at will on an available connection
\* and every request succeeds; a request that was sent is answered in the end.
\* ------------------------------------------------------------------------
MaxIntentHttp == 10
MaxIntentQueue == 2

InitIntent ==
    Constructed({FORMAT_JSON},
                [http |-> MaxIntentHttp, queue |-> MaxIntentQueue, buffer |-> 0])

NextIntent ==
    \/ OnSubscribe
    \/ OnUnsubscribe
    \/ SubscribeSuccess
    \/ UnsubscribeSuccess

SpecIntent ==
    /\ InitIntent
    /\ [][NextIntent]_vars
    /\ WF_vars(SubscribeSuccess \/ UnsubscribeSuccess)

\* ------------------------------------------------------------------------
\* Properties
\* ------------------------------------------------------------------------
ResponseHandlers ==
    {"onSubscribeSuccess", "onSubscribeError", "onUnsubscribeSuccess",
     "onUnsubscribeError", "onModifyPatchSuccess", "onModifyPatchError"}

Kinds(reqs) == [i \in 1..Len(reqs) |-> reqs[i].kind]

InFlight(kind) == {i \in inflight : requests[i].kind = kind}

\* C1, as claimed: at no moment does more than one HTTP request of the
\* subscription (POST, PATCH, DELETE, the duplicate-key cleanup DELETE
\* included) await its response.
C1_AtMostOneRequestInFlight == Cardinality(inflight) <= 1

\* C1, amended: the cleanup DELETE aside, at most one request awaits its
\* response as long as no reset() in PATCH_REQUESTED has given up a PATCH.
C1_OneRequestUnlessCleanupOrAbandonedPatch ==
    abandoned = {} => Cardinality(inflight \ InFlight("CLEANUP")) <= 1

\* the cleanup DELETE of a duplicate-key error and the retried POST are both
\* awaiting their responses
C1_Witness ==
    /\ abandoned = {}
    /\ InFlight("CLEANUP") # {}
    /\ InFlight("POST") # {}
    /\ op.name = "onSubscribeError"

\* C2: a response whose captured reference id differs from the current
\* reference id changes neither the state, the queue, the buffered updates,
\* the parser, the format nor the retry timer, and invokes no callback and
\* no state-change observer.
C2_StaleResponseIsIgnored ==
    [][(op'.name \in ResponseHandlers /\ op'.ref # referenceId)
         => /\ UNCHANGED << currentState, queue, updatesBeforeSubscribed, parser,
                            parserSchema, Format, networkErrorSubscribingTimer, timers >>
            /\ calls' = << >>]_vars

\* a response to a request sent with an older reference id has been handled
C2_Witness ==
    /\ op.name = "onSubscribeSuccess"
    /\ op.ref # referenceId
    /\ calls = << >>
    /\ currentState = STATE_SUBSCRIBE_REQUESTED
    /\ updatesBeforeSubscribed # << >>

\* the items a caller action asks for, from the action's name and argument
Asked(o) ==
    CASE o.name = "onSubscribe" -> << Item(ACTION_SUBSCRIBE, FALSE, 0) >>
      [] o.name = "onUnsubscribe" -> << Item(ACTION_UNSUBSCRIBE, o.arg = 1, 0) >>
      [] o.name = "onUnsubscribeByTagPending" ->
            << Item(ACTION_UNSUBSCRIBE_BY_TAG_PENDING, FALSE, 0) >>
      [] o.name = "onModify" /\ o.arg = 0 ->
            << Item(ACTION_UNSUBSCRIBE, TRUE, 0), Item(ACTION_SUBSCRIBE, FALSE, 0) >>
      [] o.name = "onModify" /\ o.arg = 1 -> << >>
      [] o.name = "onModify" /\ o.arg > 1 -> << Item(ACTION_MODIFY_PATCH, FALSE, o.arg - 1) >>

RECURSIVE EnqueueAll(_, _)
EnqueueAll(items, asked) ==
    IF asked = << >> THEN items
    ELSE EnqueueAll(enqueue(items, Head(asked)), Tail(asked))

CallerActions == {"onSubscribe", "onUnsubscribe", "onModify", "onUnsubscribeByTagPending"}

\* C3: while the connection is unavailable, or the state is
\* SUBSCRIBE_REQUESTED, UNSUBSCRIBE_REQUESTED or PATCH_REQUESTED, a call of
\* onSubscribe, onUnsubscribe, onModify or onUnsubscribeByTagPending sends
\* no request and leaves the state alone: the action only joins the queue.
C3_BlockedActionIsOnlyQueued ==
    [][(/\ op'.name \in CallerActions
        /\ \/ ~connectionAvailable
           \/ currentState \in {STATE_SUBSCRIBE_REQUESTED, STATE_UNSUBSCRIBE_REQUESTED,
                                STATE_PATCH_REQUESTED})
         => /\ requests' = requests
            /\ inflight' = inflight
            /\ currentState' = currentState
            /\ queue' = EnqueueAll(queue, Asked(op'))]_vars

\* an unsubscribe asked for while the subscribe request is in flight sits
\* in the queue
C3_Witness ==
    /\ op.name = "onUnsubscribe"
    /\ op.preState = STATE_SUBSCRIBE_REQUESTED
    /\ currentState = STATE_SUBSCRIBE_REQUESTED
    /\ connectionAvailable
    /\ Len(queue) = 1
    /\ queue[1].action = ACTION_UNSUBSCRIBE

\* C4, as claimed: in READY_FOR_UNSUBSCRIBE_BY_TAG a caller action (here
\* onSubscribe) is neither executed nor dropped: it joins the queue, to be
\* executed after onUnsubscribeByTagComplete.
C4_ReadyForUnsubscribeByTagQueues ==
    [][(op'.name = "onSubscribe" /\ currentState = STATE_READY_FOR_UNSUBSCRIBE_BY_TAG)
         => /\ queue' = enqueue(queue, Item(ACTION_SUBSCRIBE, FALSE, 0))
            /\ currentState' = currentState
            /\ requests' = requests]_vars

\* C5, as claimed: no HTTP request is sent after dispose().
C5_NoRequestAfterDispose ==
    \A i \in 1..Len(requests) : ~requests[i].disposed

\* the request sent by the step, when the step sent exactly one
Sent(kind) ==
    /\ Len(requests') = Len(requests) + 1
    /\ SubSeq(requests', 1, Len(requests)) = requests
    /\ requests'[Len(requests')].kind = kind

\* C6: reset() in SUBSCRIBED with an empty queue, the connection available and
\* the subscription not disposed sends exactly one DELETE and leaves the
\* subscribe queued; the DELETE's success sends exactly one POST, with a
\* reference id greater than the one before; the POST's success ends in
\* SUBSCRIBED.
C6_ResetUnsubscribesThenSubscribes ==
    [][/\ (/\ op'.name = "reset"
           /\ currentState = STATE_SUBSCRIBED
           /\ queue = << >>
           /\ connectionAvailable
           /\ ~isDisposed)
            => /\ Sent("DELETE")
               /\ requests'[Len(requests')].ReferenceId = referenceId
               /\ currentState' = STATE_UNSUBSCRIBE_REQUESTED
               /\ queue' = << Item(ACTION_SUBSCRIBE, FALSE, 0) >>
       /\ (/\ op'.name = "onUnsubscribeSuccess"
           /\ op'.ref = referenceId
           /\ currentState = STATE_UNSUBSCRIBE_REQUESTED
           /\ queue = << Item(ACTION_SUBSCRIBE, FALSE, 0) >>
           /\ connectionAvailable
           /\ ~isDisposed)
            => /\ Sent("POST")
               /\ requests'[Len(requests')].ReferenceId > referenceId
               /\ referenceId' = requests'[Len(requests')].ReferenceId
               /\ currentState' = STATE_SUBSCRIBE_REQUESTED
               /\ queue' = << >>
       /\ (/\ op'.name = "onSubscribeSuccess"
           /\ op'.ref = referenceId
           /\ currentState = STATE_SUBSCRIBE_REQUESTED
           /\ queue = << >>)
            => /\ requests' = requests
               /\ currentState' = STATE_SUBSCRIBED]_vars

\* reset() has just acted on a subscribed subscription with an empty queue
C6_Witness ==
    /\ op.name = "reset"
    /\ op.preState = STATE_SUBSCRIBED
    /\ Kinds(requests) = << "POST", "DELETE" >>
    /\ inflight = {2}
    /\ currentState = STATE_UNSUBSCRIBE_REQUESTED
    /\ queue = << Item(ACTION_SUBSCRIBE, FALSE, 0) >>

\* C7, as claimed: the response of a PATCH that reset() gave up changes
\* neither the state nor the queue, whenever it arrives.
C7_AbandonedPatchResponseIsIgnored ==
    [][(op'.name \in {"onModifyPatchSuccess", "onModifyPatchError"} /\ op'.arg \in abandoned)
         => (currentState' = currentState /\ queue' = queue)]_vars

\* C8: reset() does nothing in UNSUBSCRIBED, UNSUBSCRIBE_REQUESTED and
\* READY_FOR_UNSUBSCRIBE_BY_TAG, and nothing in SUBSCRIBE_REQUESTED or
\* SUBSCRIBED when the head of the queue is an UNSUBSCRIBE.
C8_ResetIsNoOp ==
    [][(/\ op'.name = "reset"
        /\ \/ currentState \in {STATE_UNSUBSCRIBED, STATE_UNSUBSCRIBE_REQUESTED,
                                STATE_READY_FOR_UNSUBSCRIBE_BY_TAG}
           \/ /\ currentState \in {STATE_SUBSCRIBE_REQUESTED, STATE_SUBSCRIBED}
              /\ queue # << >>
              /\ queue[1].action = ACTION_UNSUBSCRIBE)
         => /\ UNCHANGED << currentState, queue, requests, inflight, referenceId,
                            referenceIdCounter, updatesBeforeSubscribed,
                            networkErrorSubscribingTimer, timers, parser, Format >>
            /\ calls' = << >>
            /\ ~thrown']_vars

\* reset() was called while subscribed with an unsubscribe at the head of
\* the queue
C8_Witness ==
    /\ op.name = "reset"
    /\ op.preState = STATE_SUBSCRIBED
    /\ currentState = STATE_SUBSCRIBED
    /\ queue # << >>
    /\ queue[1].action = ACTION_UNSUBSCRIBE

\* C9, as claimed: once a delta has failed to parse while subscribed (a
\* buffered delta replayed by the subscribe response included), and with the
\* connection available, every request answered with success and no caller
\* action since, the subscription has sent a new POST and is SUBSCRIBED
\* again when nothing is left in flight.
C9_ParseFailureResubscribes ==
    (resync # 0 /\ connectionAvailable /\ inflight = {})
        => /\ currentState = STATE_SUBSCRIBED
           /\ \E i \in (resync + 1)..Len(requests) : requests[i].kind = "POST"

OnUpdateCalls(cs) == SelectSeq(cs, LAMBDA c : c.cb = "onUpdate")

RECURSIVE Deliveries(_)
Deliveries(messages) ==
    IF messages = << >> THEN << >>
    ELSE << Call("onUpdate", Head(messages).id, UPDATE_TYPE_DELTA) >>
            \o Deliveries(Tail(messages))

Parsed(messages) == SelectSeq(messages, LAMBDA m : ~m.bad)

RECURSIVE UntilParseFailure(_)
UntilParseFailure(messages) ==
    IF messages = << >> \/ Head(messages).bad THEN << >>
    ELSE << Head(messages) >> \o UntilParseFailure(Tail(messages))

Replays ==
    /\ op'.name = "onSubscribeSuccess"
    /\ op'.ref = referenceId
    /\ peekAction(queue) # ACTION_UNSUBSCRIBE

\* C10, as claimed: a delta received in SUBSCRIBE_REQUESTED is not delivered
\* but buffered; the successful subscribe response (head of the queue not
\* UNSUBSCRIBE) invokes onUpdate with the snapshot first and then once per
\* buffered delta, in arrival order, and leaves nothing buffered.
C10_BufferedDeltasAllReplayed ==
    [][/\ (op'.name = "onStreamingData" /\ currentState = STATE_SUBSCRIBE_REQUESTED)
            => /\ OnUpdateCalls(calls') = << >>
               /\ Len(updatesBeforeSubscribed') = Len(updatesBeforeSubscribed) + 1
       /\ Replays
            => /\ OnUpdateCalls(calls')
                    = << Call("onUpdate", 0, UPDATE_TYPE_SNAPSHOT) >>
                      \o Deliveries(updatesBeforeSubscribed)
               /\ updatesBeforeSubscribed' = << >>]_vars

\* C10, amended: the replay delivers the buffered deltas that parse, in
\* arrival order after the snapshot; a buffered delta that fails to parse is
\* not delivered and, when the connection is available, neither are the
\* buffered deltas behind it.
C10_BufferedDeltasReplayedUntilParseFailure ==
    [][/\ (op'.name = "onStreamingData" /\ currentState = STATE_SUBSCRIBE_REQUESTED)
            => /\ OnUpdateCalls(calls') = << >>
               /\ updatesBeforeSubscribed' = Append(updatesBeforeSubscribed,
                        [id |-> op'.arg, bad |-> op'.arg = 3])
       /\ Replays
            => /\ OnUpdateCalls(calls')
                    = << Call("onUpdate", 0, UPDATE_TYPE_SNAPSHOT) >>
                      \o Deliveries(IF connectionAvailable
                                    THEN UntilParseFailure(updatesBeforeSubscribed)
                                    ELSE Parsed(updatesBeforeSubscribed))
               /\ updatesBeforeSubscribed' = << >>]_vars

\* two buffered deltas were replayed after the snapshot
C10_Witness ==
    /\ op.name = "onSubscribeSuccess"
    /\ currentState = STATE_SUBSCRIBED
    /\ Len(OnUpdateCalls(calls)) = 3
    /\ OnUpdateCalls(calls)[1].y = UPDATE_TYPE_SNAPSHOT
    /\ OnUpdateCalls(calls)[2].x # OnUpdateCalls(calls)[3].x

CallsOf(cs, cb) == SelectSeq(cs, LAMBDA c : c.cb = cb)

\* C11: a subscribe success that is not stale sets SUBSCRIBED first and
\* invokes onSubscriptionCreated exactly once; with an UNSUBSCRIBE at the head
\* of the queue it invokes onUpdate for neither the snapshot nor a buffered
\* delta, discards the buffer and, the connection available, executes the
\* queued unsubscribe.
C11_SubscribeSuccessWithUnsubscribeQueued ==
    [][(op'.name = "onSubscribeSuccess" /\ op'.ref = referenceId)
         => /\ calls'[1] = Call("stateChanged", STATE_SUBSCRIBED, 0)
            /\ Len(CallsOf(calls', "onSubscriptionCreated")) = 1
            /\ peekAction(queue) = ACTION_UNSUBSCRIBE
                 => /\ CallsOf(calls', "onUpdate") = << >>
                    /\ updatesBeforeSubscribed' = << >>
                    /\ connectionAvailable
                         => /\ Sent("DELETE")
                            /\ currentState' = STATE_UNSUBSCRIBE_REQUESTED]_vars

\* the subscribe succeeded with an unsubscribe queued behind it: the DELETE
\* went out and nothing was delivered
C11_Witness ==
    /\ op.name = "onSubscribeSuccess"
    /\ op.preState = STATE_SUBSCRIBE_REQUESTED
    /\ currentState = STATE_UNSUBSCRIBE_REQUESTED
    /\ Kinds(requests) = << "POST", "DELETE" >>
    /\ CallsOf(calls, "onUpdate") = << >>
    /\ Len(CallsOf(calls, "onSubscriptionCreated")) = 1
    /\ resync = 0

\* C12, as claimed: the buffer of updates received before the subscribe
\* response is non-empty only in SUBSCRIBE_REQUESTED; it is empty after a
\* failed subscribe response.
C12_BufferOnlyWhileSubscribeRequested ==
    updatesBeforeSubscribed # << >> => currentState = STATE_SUBSCRIBE_REQUESTED

\* C12, amended: the buffer is non-empty only in SUBSCRIBE_REQUESTED or, left
\* over from a subscribe that did not succeed, in UNSUBSCRIBED and
\* READY_FOR_UNSUBSCRIBE_BY_TAG; every step that sends a POST empties it.
C12_BufferKeptUntilNextSubscribe ==
    [][/\ updatesBeforeSubscribed' # << >>
            => currentState' \in {STATE_SUBSCRIBE_REQUESTED, STATE_UNSUBSCRIBED,
                                  STATE_READY_FOR_UNSUBSCRIBE_BY_TAG}
       /\ (\E i \in (Len(requests) + 1)..Len(requests') : requests'[i].kind = "POST")
            => updatesBeforeSubscribed' = << >>]_vars

\* the subscribe failed and the updates buffered for it are still there
C12_Witness ==
    /\ op.name = "onSubscribeError"
    /\ currentState = STATE_UNSUBSCRIBED
    /\ updatesBeforeSubscribed # << >>

\* the kinds of error a subscribe error step was given
IsDupe(o) == o.arg % 2 = 1

IsUnsupported(o) == (o.arg \div 2) % 2 = 1

IsNetworkError(o) == o.arg \div 4 = 1

WillUnsubscribe == BitAnd(peekAction(queue), ACTION_UNSUBSCRIBE) # 0

FreshSubscribeError ==
    /\ op'.name = "onSubscribeError"
    /\ op'.ref = referenceId

\* the requests sent by the step
NewRequests == SubSeq(requests', Len(requests) + 1, Len(requests'))

\* the duplicate-key error step: one cleanup DELETE with the ids of the
\* failed POST, UNSUBSCRIBED first, then the POST or the queued subscribe
DuplicateKeyStep ==
    (FreshSubscribeError /\ IsDupe(op') /\ ~WillUnsubscribe)
        => /\ calls'[1] = Call("stateChanged", STATE_UNSUBSCRIBED, 0)
           /\ SubSeq(requests', 1, Len(requests)) = requests
           /\ Len(NewRequests) >= 1
           /\ NewRequests[1].kind = "CLEANUP"
           /\ NewRequests[1].ReferenceId = op'.ref
           /\ NewRequests[1].ContextId = currentStreamingContextId
           /\ IF connectionAvailable
              THEN /\ Kinds(NewRequests) = << "CLEANUP", "POST" >>
                   /\ NewRequests[2].ReferenceId > op'.ref
                   /\ referenceId' = NewRequests[2].ReferenceId
                   /\ currentState' = STATE_SUBSCRIBE_REQUESTED
              ELSE /\ Kinds(NewRequests) = << "CLEANUP" >>
                   /\ currentState' = STATE_UNSUBSCRIBED
                   /\ queue' = enqueue(queue, Item(ACTION_SUBSCRIBE, FALSE, 0))

\* the connection comes back right after a duplicate-key error that left
\* the subscribe queued
RetryWaitsForConnection ==
    /\ op.name = "onSubscribeError"
    /\ IsDupe(op)
    /\ currentState = STATE_UNSUBSCRIBED
    /\ ~connectionAvailable
    /\ queue # << >>
    /\ getLastItem(queue).action = ACTION_SUBSCRIBE
    /\ op'.name = "onConnectionAvailable"

RetriesNow ==
    /\ Kinds(NewRequests) = << "POST" >>
    /\ NewRequests[1].ReferenceId > op.ref
    /\ currentState' = STATE_SUBSCRIBE_REQUESTED

\* C13, as claimed: a duplicate-key error that is not stale, with no
\* UNSUBSCRIBE at the head of the queue, sends exactly one cleanup DELETE with
\* the reference id of the failed POST, passes through UNSUBSCRIBED and sends
\* a new POST with a greater reference id, at once when the connection is
\* available and otherwise when it becomes available.
C13_DuplicateKeyCleansUpAndRetries ==
    [][DuplicateKeyStep /\ (RetryWaitsForConnection => RetriesNow)]_vars

\* the same, for a queue that holds no unsubscribe-by-tag
C13_DuplicateKeyRetriesUnlessBulkUnsubscribeQueued ==
    [][/\ DuplicateKeyStep
       /\ (/\ RetryWaitsForConnection
           /\ \A i \in 1..Len(queue) :
                 queue[i].action # ACTION_UNSUBSCRIBE_BY_TAG_PENDING)
            => RetriesNow]_vars

\* C14, as claimed: a duplicate-key error whose captured reference id is
\* stale is ignored, except that a cleanup DELETE with the captured reference
\* id is still sent.
C14_StaleDuplicateKeyStillCleansUp ==
    [][(op'.name = "onSubscribeError" /\ op'.ref # referenceId /\ IsDupe(op'))
         => /\ Kinds(NewRequests) = << "CLEANUP" >>
            /\ NewRequests[1].ReferenceId = op'.ref
            /\ UNCHANGED << currentState, queue >>]_vars

\* C15: an UnsupportedSubscriptionFormat error that is not stale, on a
\* protobuf subscription with no UNSUBSCRIBE at the head of the queue, sets
\* UNSUBSCRIBED, switches the format to application/json and subscribes again:
\* with the connection available a POST with a new reference id and Format
\* application/json is sent and the state is SUBSCRIBE_REQUESTED. The format
\* never goes back, and every POST carries the format of its time.
C15_UnsupportedFormatFallsBackToJson ==
    [][/\ (/\ FreshSubscribeError
           /\ IsUnsupported(op') /\ ~IsDupe(op')
           /\ Format = FORMAT_PROTOBUF
           /\ ~WillUnsubscribe)
            => /\ calls'[1] = Call("stateChanged", STATE_UNSUBSCRIBED, 0)
               /\ Format' = FORMAT_JSON
               /\ parser' = FORMAT_JSON
               /\ CallsOf(calls', "onError") = << >>
               /\ IF connectionAvailable
                  THEN /\ Kinds(NewRequests) = << "POST" >>
                       /\ NewRequests[1].Format = FORMAT_JSON
                       /\ NewRequests[1].ReferenceId > op'.ref
                       /\ currentState' = STATE_SUBSCRIBE_REQUESTED
                  ELSE /\ NewRequests = << >>
                       /\ currentState' = STATE_UNSUBSCRIBED
                       /\ queue' = enqueue(queue, Item(ACTION_SUBSCRIBE, FALSE, 0))
       /\ Format = FORMAT_JSON => Format' = FORMAT_JSON
       /\ \A i \in 1..Len(NewRequests) :
             NewRequests[i].kind = "POST" => NewRequests[i].Format = Format']_vars

\* a protobuf subscription was refused for its format and has subscribed
\* again as JSON
C15_Witness ==
    /\ op.name = "onSubscribeError"
    /\ IsUnsupported(op)
    /\ currentState = STATE_SUBSCRIBE_REQUESTED
    /\ Len(requests) = 2
    /\ requests[1].Format = FORMAT_PROTOBUF
    /\ requests[2].Format = FORMAT_JSON
    /\ requests[2].kind = "POST"

\* the subscribe error reaches the network-error and error-callback part of
\* the handler: it is no duplicate-key retry and no format fall-back
ReachesErrorTail ==
    /\ FreshSubscribeError
    /\ WillUnsubscribe \/ (~IsDupe(op') /\ ~(IsUnsupported(op') /\ Format = FORMAT_PROTOBUF))

\* C16: a network error on a subscribe that is not stale, with no UNSUBSCRIBE
\* at the head of the queue, sets UNSUBSCRIBED, invokes onNetworkError once
\* and onError not at all, sends no request and starts the retry timer; when
\* the timer fires with the subscription still UNSUBSCRIBED and the
\* connection available, a POST with a new reference id is sent.
C16_NetworkErrorRetriesAfterTimer ==
    [][/\ (ReachesErrorTail /\ IsNetworkError(op') /\ ~WillUnsubscribe)
            => /\ currentState' = STATE_UNSUBSCRIBED
               /\ Len(CallsOf(calls', "onNetworkError")) = 1
               /\ CallsOf(calls', "onError") = << >>
               /\ requests' = requests
               /\ queue' = queue
               /\ networkErrorSubscribingTimer' # 0
               /\ networkErrorSubscribingTimer' \in timers' \ timers
       /\ (/\ op'.name = "onNetworkErrorTimeout"
           /\ currentState = STATE_UNSUBSCRIBED
           /\ connectionAvailable)
            => /\ Kinds(NewRequests) = << "POST" >>
               /\ NewRequests[1].ReferenceId > referenceId
               /\ referenceId' = NewRequests[1].ReferenceId
               /\ currentState' = STATE_SUBSCRIBE_REQUESTED
               /\ op'.arg \notin timers']_vars

\* the retry timer of a network error fired right after the error and the
\* subscribe was sent again
C16_Witness ==
    /\ op.name = "onNetworkErrorTimeout"
    /\ op.preState = STATE_UNSUBSCRIBED
    /\ currentState = STATE_SUBSCRIBE_REQUESTED
    /\ Kinds(requests) = << "POST", "POST" >>
    /\ inflight = {2}
    /\ timers = {}

\* the step sends a subscribe POST
PostSent == \E i \in 1..Len(NewRequests) : NewRequests[i].kind = "POST"

\* the actions of a queue, in order
QueuedActions(q) == [i \in 1..Len(q) |-> q[i].action]

\* C17: a subscribe error that is not stale invokes onError exactly when it
\* is no duplicate-key error, no unsupported-format error of a protobuf
\* subscription, no network error, and no UNSUBSCRIBE is at the head of the
\* queue. With an UNSUBSCRIBE at the head, whatever the error: no onError, no
\* onNetworkError, no timer, nothing is added to the queue, a POST is sent
\* only for a SUBSCRIBE that was queued already, and the queue is drained
\* from UNSUBSCRIBED when the connection is available.
C17_OnErrorExactlyForPlainErrors ==
    [][FreshSubscribeError =>
        /\ Len(CallsOf(calls', "onError")) <= 1
        /\ CallsOf(calls', "onError") # << >>
            <=> /\ ~IsDupe(op')
                /\ ~(IsUnsupported(op') /\ Format = FORMAT_PROTOBUF)
                /\ ~IsNetworkError(op')
                /\ ~WillUnsubscribe
        /\ calls'[1] = Call("stateChanged", STATE_UNSUBSCRIBED, 0)
        /\ WillUnsubscribe =>
            /\ CallsOf(calls', "onNetworkError") = << >>
            /\ networkErrorSubscribingTimer' = networkErrorSubscribingTimer
            /\ timers' = timers
            /\ Len(queue') <= Len(queue)
            /\ \A i \in 1..Len(queue') : \E j \in 1..Len(queue) : queue'[i] = queue[j]
            /\ PostSent =>
                /\ \E j \in 1..Len(queue) : queue[j].action = ACTION_SUBSCRIBE
                /\ connectionAvailable
            /\ connectionAvailable => Len(queue') < Len(queue)
            /\ ~connectionAvailable =>
                /\ queue' = queue
                /\ currentState' = STATE_UNSUBSCRIBED
            /\ QueuedActions(queue) = << ACTION_UNSUBSCRIBE >> /\ connectionAvailable =>
                /\ queue' = << >>
                /\ currentState' = STATE_UNSUBSCRIBED
                /\ ~PostSent]_vars

\* a network error arrived with an UNSUBSCRIBE at the head of the queue: the
\* state was set, neither onNetworkError nor onError ran, no timer is pending
\* and the queue is empty
C17_Witness ==
    /\ op.name = "onSubscribeError"
    /\ IsNetworkError(op)
    /\ calls # << >>
    /\ calls[1] = Call("stateChanged", STATE_UNSUBSCRIBED, 0)
    /\ CallsOf(calls, "onNetworkError") = << >>
    /\ CallsOf(calls, "onError") = << >>
    /\ currentState = STATE_UNSUBSCRIBED
    /\ connectionAvailable
    /\ networkErrorSubscribingTimer = 0
    /\ queue = << >>

\* a plain error arrived with nothing queued and onError was invoked
C17_OnErrorInvoked ==
    /\ op.name = "onSubscribeError"
    /\ ~IsDupe(op) /\ ~IsUnsupported(op) /\ ~IsNetworkError(op)
    /\ CallsOf(calls, "onError") # << >>

\* a response to the DELETE or to a PATCH that is not stale
FreshResponseTo(names) == op'.name \in names /\ op'.ref = referenceId

\* the handler set the state and then ran the next queued action, when there
\* is one and the connection is available
SetThenDrained(state) ==
    /\ calls' # << >>
    /\ calls'[1] = Call("stateChanged", state, 0)
    /\ (isEmpty(queue) \/ ~connectionAvailable) =>
        /\ currentState' = state
        /\ queue' = queue
        /\ requests' = requests
        /\ Len(calls') = 1
    /\ (~isEmpty(queue) /\ connectionAvailable) =>
        LET next == dequeue(queue)[1].action
        IN  /\ Len(queue') < Len(queue)
            /\ (next = ACTION_SUBSCRIBE /\ state = STATE_UNSUBSCRIBED) =>
                /\ NewRequests # << >>
                /\ NewRequests[1].kind = "POST"
                /\ NewRequests[1].ReferenceId > referenceId
                /\ currentState' = STATE_SUBSCRIBE_REQUESTED
            /\ (next = ACTION_UNSUBSCRIBE /\ state = STATE_SUBSCRIBED) =>
                /\ Kinds(NewRequests) = << "DELETE" >>
                /\ currentState' = STATE_UNSUBSCRIBE_REQUESTED
            /\ (next = ACTION_MODIFY_PATCH /\ state = STATE_SUBSCRIBED) =>
                /\ NewRequests # << >>
                /\ NewRequests[1].kind = "PATCH"
                /\ Len(calls') > 1
                /\ calls'[2] = Call("stateChanged", STATE_PATCH_REQUESTED, 0)
            /\ next = ACTION_UNSUBSCRIBE_BY_TAG_PENDING =>
                /\ Len(calls') > 1
                /\ calls'[2] = Call("stateChanged", STATE_READY_FOR_UNSUBSCRIBE_BY_TAG, 0)

\* C18: a response to the unsubscribe DELETE that is not stale, success or
\* error, sets the state to UNSUBSCRIBED, and a response to a PATCH that is
\* not stale, success or error, sets it to SUBSCRIBED; the handler then runs
\* the next queued action if there is one and the connection is available.
C18_ResponseSetsStateAndDrains ==
    [][/\ FreshResponseTo({"onUnsubscribeSuccess", "onUnsubscribeError"})
            => SetThenDrained(STATE_UNSUBSCRIBED)
       /\ FreshResponseTo({"onModifyPatchSuccess", "onModifyPatchError"})
            => SetThenDrained(STATE_SUBSCRIBED)]_vars

\* the DELETE failed with a subscribe queued behind it: the state went to
\* UNSUBSCRIBED and the queued subscribe was sent
C18_Witness ==
    /\ op.name = "onUnsubscribeError"
    /\ op.preState = STATE_UNSUBSCRIBE_REQUESTED
    /\ Len(calls) > 1
    /\ calls[1] = Call("stateChanged", STATE_UNSUBSCRIBED, 0)
    /\ currentState = STATE_SUBSCRIBE_REQUESTED
    /\ Kinds(requests) = << "POST", "DELETE", "POST" >>
    /\ queue = << >>

\* the message of a streaming step, from its payload
MessageOf(id) == CHOOSE m \in Messages : m.id = id

\* C19: onStreamingData stamps latestActivity in every state and routes by
\* state: ignored in UNSUBSCRIBE_REQUESTED, ignored with false returned in
\* UNSUBSCRIBED, appended to the buffer and not delivered in
\* SUBSCRIBE_REQUESTED, delivered once to onUpdate as a delta in SUBSCRIBED
\* and PATCH_REQUESTED. The state is unchanged unless the message fails to
\* parse when it is to be delivered.
C19_StreamingDataRoutedByState ==
    [][op'.name = "onStreamingData" =>
        LET message == MessageOf(op'.arg)
            delivering == currentState \in {STATE_SUBSCRIBED, STATE_PATCH_REQUESTED}
        IN  /\ latestActivity' = clock
            /\ clock' = clock
            /\ ~(delivering /\ message.bad) =>
                /\ currentState' = currentState
                /\ requests' = requests
                /\ queue' = queue
            /\ currentState = STATE_UNSUBSCRIBE_REQUESTED =>
                /\ calls' = << >>
                /\ updatesBeforeSubscribed' = updatesBeforeSubscribed
                /\ returned' = "undefined"
            /\ currentState = STATE_UNSUBSCRIBED =>
                /\ calls' = << >>
                /\ updatesBeforeSubscribed' = updatesBeforeSubscribed
                /\ returned' = "false"
            /\ currentState = STATE_SUBSCRIBE_REQUESTED =>
                /\ calls' = << >>
                /\ updatesBeforeSubscribed' = Append(updatesBeforeSubscribed, message)
                /\ returned' = "undefined"
            /\ (delivering /\ ~message.bad) =>
                /\ calls' = << Call("onUpdate", message.id, UPDATE_TYPE_DELTA) >>
                /\ updatesBeforeSubscribed' = updatesBeforeSubscribed
                /\ returned' = "undefined"]_vars

\* a message arrived while a PATCH was awaited, later than any activity
\* before it: it was delivered as a delta and the time was stamped
C19_Witness ==
    /\ op.name = "onStreamingData"
    /\ op.preState = STATE_PATCH_REQUESTED
    /\ currentState = STATE_PATCH_REQUESTED
    /\ calls = << Call("onUpdate", 2, UPDATE_TYPE_DELTA) >>
    /\ clock = MaxClock
    /\ latestActivity = clock

\* C20: a streaming message that arrives in a state outside the five primary
\* states, READY_FOR_UNSUBSCRIBE_BY_TAG in particular, is dropped: onUpdate
\* is not invoked and the message is not buffered.
C20_DataInOtherStateIsDropped ==
    [][(/\ op'.name = "onStreamingData"
        /\ currentState \notin {STATE_UNSUBSCRIBED, STATE_SUBSCRIBE_REQUESTED,
                                STATE_SUBSCRIBED, STATE_UNSUBSCRIBE_REQUESTED,
                                STATE_PATCH_REQUESTED})
            => /\ CallsOf(calls', "onUpdate") = << >>
               /\ updatesBeforeSubscribed' = updatesBeforeSubscribed]_vars

\* the edges of the state diagram
Edges ==
    {<< STATE_UNSUBSCRIBED, STATE_SUBSCRIBE_REQUESTED >>,
     << STATE_SUBSCRIBE_REQUESTED, STATE_SUBSCRIBED >>,
     << STATE_SUBSCRIBE_REQUESTED, STATE_UNSUBSCRIBED >>,
     << STATE_SUBSCRIBED, STATE_UNSUBSCRIBE_REQUESTED >>,
     << STATE_UNSUBSCRIBE_REQUESTED, STATE_UNSUBSCRIBED >>,
     << STATE_SUBSCRIBED, STATE_PATCH_REQUESTED >>,
     << STATE_PATCH_REQUESTED, STATE_SUBSCRIBED >>,
     << STATE_SUBSCRIBED, STATE_READY_FOR_UNSUBSCRIBE_BY_TAG >>,
     << STATE_UNSUBSCRIBED, STATE_READY_FOR_UNSUBSCRIBE_BY_TAG >>,
     << STATE_READY_FOR_UNSUBSCRIBE_BY_TAG, STATE_UNSUBSCRIBED >>}

\* the states a handler went through: the state it started in, then every
\* state it set
StatesOf(start, cs) ==
    << start >> \o [i \in 1..Len(CallsOf(cs, "stateChanged")) |->
                        CallsOf(cs, "stateChanged")[i].x]

\* C21: the state after construction is UNSUBSCRIBED and every change of
\* currentState, those inside one handler included, follows an edge of the
\* state diagram.
C21_StateChangesFollowDiagram ==
    [][LET path == StatesOf(currentState, calls')
       IN  \A i \in 1..(Len(path) - 1) :
               path[i] # path[i + 1] => << path[i], path[i + 1] >> \in Edges]_vars

\* C22: onSubscribe() and onModify() on a disposed subscription throw and do
\* nothing else: state, queue, retry timer, requests and the subscription
\* arguments are unchanged and no callback runs.
C22_DisposedSubscribeAndModifyThrow ==
    [][(op'.name \in {"onSubscribe", "onModify"} /\ isDisposed)
         => /\ thrown'
            /\ currentState' = currentState
            /\ queue' = queue
            /\ networkErrorSubscribingTimer' = networkErrorSubscribingTimer
            /\ timers' = timers
            /\ requests' = requests
            /\ inflight' = inflight
            /\ Arguments' = Arguments
            /\ referenceId' = referenceId
            /\ calls' = << >>]_vars

\* onModify was called on a disposed subscription whose retry timer is
\* pending: it threw and the timer is still pending
C22_Witness ==
    /\ op.name = "onModify"
    /\ isDisposed
    /\ thrown
    /\ networkErrorSubscribingTimer # 0
    /\ networkErrorSubscribingTimer \in timers
    /\ currentState = STATE_UNSUBSCRIBED

\* the cases in which no orphaning is to be expected
NeverOrphaned ==
    \/ ~connectionAvailable
    \/ inactivityTimeout = 0
    \/ currentState \in {STATE_UNSUBSCRIBED, STATE_UNSUBSCRIBE_REQUESTED,
                         STATE_SUBSCRIBE_REQUESTED}

\* what timeTillOrphaned is to return and that it changes nothing
OrphanTimeAsSpecified ==
    /\ returned'.kind = "Infinity" <=> NeverOrphaned
    /\ ~NeverOrphaned =>
        /\ returned' = Number(inactivityTimeout * 1000 - (op'.arg - latestActivity))
        /\ \A later \in op'.arg..MaxNow :
               timeTillOrphaned(Self, later).kind = "number"
                 /\ timeTillOrphaned(Self, later).value <= returned'.value
    /\ currentState' = currentState
    /\ latestActivity' = latestActivity
    /\ inactivityTimeout' = inactivityTimeout

\* C23: timeTillOrphaned(now) returns Infinity exactly when the connection is
\* unavailable, the inactivity timeout is 0 or the state is UNSUBSCRIBED,
\* UNSUBSCRIBE_REQUESTED or SUBSCRIBE_REQUESTED; in every other case it
\* returns inactivityTimeout * 1000 - (now - latestActivity), which does not
\* grow with now.
C23_TimeTillOrphaned ==
    [][op'.name = "timeTillOrphaned" => OrphanTimeAsSpecified]_vars

\* the same, for a subscription that has had a successful subscribe response
C23_TimeTillOrphanedOnceSubscribed ==
    [][(op'.name = "timeTillOrphaned" /\ inactivityTimeout # -1)
         => OrphanTimeAsSpecified]_vars

\* the subscribe POSTs among the requests a step sends
NewPosts == SelectSeq(NewRequests, LAMBDA r : r.kind = "POST")

\* C24: referenceId changes only in a step that sends a subscribe POST, to the
\* id of that POST; the id is the value of the shared counter, which is then
\* incremented and never decreases, so the id is greater than every id handed
\* out before, to this subscription or to another one.
C24_ReferenceIdsAreFresh ==
    [][/\ referenceIdCounter' >= referenceIdCounter
       /\ Len(NewPosts) <= 1
       /\ NewPosts # << >> =>
            /\ NewPosts[1].ReferenceId = referenceIdCounter
            /\ referenceIdCounter' = referenceIdCounter + 1
            /\ referenceId' = NewPosts[1].ReferenceId
            /\ referenceId' > referenceId
            /\ \A i \in 1..Len(requests) :
                   requests[i].ReferenceId < NewPosts[1].ReferenceId
       /\ NewPosts = << >> =>
            /\ referenceId' = referenceId
            /\ op'.name # "otherSubscribe" => referenceIdCounter' = referenceIdCounter
       /\ op'.name = "otherSubscribe" =>
            /\ op'.arg = referenceIdCounter
            /\ referenceIdCounter' = referenceIdCounter + 1
            /\ \A i \in 1..Len(requests') : requests'[i].ReferenceId # op'.arg]_vars

\* two POSTs of the subscription with an id between them that went to
\* another subscription
C24_Witness ==
    \E i, j \in 1..Len(requests) :
        /\ i < j
        /\ requests[i].kind = "POST"
        /\ requests[j].kind = "POST"
        /\ requests[j].ReferenceId = requests[i].ReferenceId + 2
        /\ referenceId = requests[j].ReferenceId

\* C25, as claimed: the parser is always set and is swapped from protobuf to
\* JSON only by a subscribe error that says UnsupportedSubscriptionFormat;
\* no other step, a successful subscribe response in particular, changes it.
C25_ParserSwappedOnlyOnUnsupportedFormat ==
    [][/\ parser' \in Formats
       /\ parser' # parser =>
            /\ parser = FORMAT_PROTOBUF
            /\ parser' = FORMAT_JSON
            /\ FreshSubscribeError
            /\ IsUnsupported(op')]_vars

\* a subscribe success that is not stale ran processSnapshot for a response
\* without a schema name, on a protobuf subscription whose parser has no
\* schema name cached
SnapshotWithoutSchema ==
    /\ op'.name = "onSubscribeSuccess"
    /\ op'.ref = referenceId
    /\ Format = FORMAT_PROTOBUF
    /\ ~WillUnsubscribe
    /\ ~parserSchema
    /\ ~SchemaName'
    /\ Call("onUpdate", 0, UPDATE_TYPE_SNAPSHOT) \in {calls'[i] : i \in 1..Len(calls')}

\* C25, amended: the parser is always set and is swapped from protobuf to
\* JSON only by a subscribe error that says UnsupportedSubscriptionFormat or
\* by a successful subscribe response without a schema name when the parser
\* has no schema name cached; nothing swaps it back.
C25_ParserSwappedOnUnsupportedFormatOrMissingSchema ==
    [][/\ parser' \in Formats
       /\ parser' # parser =>
            /\ parser = FORMAT_PROTOBUF
            /\ parser' = FORMAT_JSON
            /\ \/ FreshSubscribeError /\ IsUnsupported(op') /\ Format = FORMAT_PROTOBUF
               \/ SnapshotWithoutSchema]_vars

\* a successful subscribe response left a protobuf subscription with the
\* JSON parser
C25_Witness ==
    /\ op.name = "onSubscribeSuccess"
    /\ currentState = STATE_SUBSCRIBED
    /\ Format = FORMAT_PROTOBUF
    /\ parser = FORMAT_JSON
    /\ Kinds(requests) = << "POST" >>

\* the longest sequence of caller actions compared
MaxActions == 3

\* the caller's actions: subscribe, unsubscribe (unforced, forced), modify
\* (as a patch, as a resubscribe)
CallerActs == {"subscribe", "unsubscribe", "forceUnsubscribe", "patch", "modify"}

ActionSeqs == UNION {[1..n -> CallerActs] : n \in 1..MaxActions}

Act(st, a) ==
    CASE a = "subscribe" -> onSubscribe(st)
      [] a = "unsubscribe" -> onUnsubscribe(st, FALSE)
      [] a = "forceUnsubscribe" -> onUnsubscribe(st, TRUE)
      [] a = "patch" -> onModify(st, 1, TRUE, 1)
      [] a = "modify" -> onModify(st, 1, FALSE, 0)

\* every request in flight succeeds, and so does every request its response
\* handler sends, until nothing is awaited
RECURSIVE Succeed(_)
Succeed(st) ==
    IF st.inflight = {} THEN st
    ELSE LET i == CHOOSE k \in st.inflight : \A j \in st.inflight : k <= j
             request == st.requests[i]
             s0 == [st EXCEPT !.inflight = @ \ {i}]
         IN  Succeed(CASE request.kind = "POST" ->
                            onSubscribeSuccess(s0, request.ReferenceId,
                                               CHOOSE r \in PlainResponses : TRUE)
                       [] request.kind = "DELETE" ->
                            onUnsubscribeSuccess(s0, request.ReferenceId)
                       [] request.kind = "PATCH" ->
                            onModifyPatchSuccess(s0, request.ReferenceId)
                       [] OTHER -> s0)

\* the actions one after the other, each with its requests answered before
\* the next: nothing is ever queued
RECURSIVE RunDirect(_, _)
RunDirect(st, acts) ==
    IF acts = << >> THEN st
    ELSE RunDirect(Succeed(Act(st, Head(acts))), Tail(acts))

RECURSIVE ActAll(_, _)
ActAll(st, acts) ==
    IF acts = << >> THEN st ELSE ActAll(Act(st, Head(acts)), Tail(acts))

\* the actions all at once while they can only be queued, because a request
\* is awaited or because the connection is unavailable; then the queue is
\* drained with every request succeeding
RunQueued(st, acts) ==
    IF st.inflight # {} THEN Succeed(ActAll(st, acts))
    ELSE Succeed(onConnectionAvailable(ActAll(onConnectionUnavailable(st), acts)))

RECURSIVE IsSubSeq(_, _)
IsSubSeq(a, b) ==
    IF a = << >> THEN TRUE
    ELSE IF b = << >> THEN FALSE
    ELSE IF Head(a) = Head(b) THEN IsSubSeq(Tail(a), Tail(b))
    ELSE IsSubSeq(a, Tail(b))

\* a state from which a sequence of actions is compared: nothing queued, the
\* connection available, and either nothing awaited or one request awaited
ComparedFrom ==
    /\ queue = << >>
    /\ connectionAvailable
    /\ timers = {}
    /\ \/ inflight = {} /\ currentState \in {STATE_UNSUBSCRIBED, STATE_SUBSCRIBED}
       \/ Cardinality(inflight) = 1 /\ IsTransitioning(Self)

C27_NoPostWhileDeleteAwaited ==
    [][PostSent => \A i \in inflight' : requests'[i].kind # "DELETE"]_vars

\* the same, as long as reset() has given up no PATCH
C27_NoPostWhileDeleteAwaitedUnlessPatchAbandoned ==
    [][(PostSent /\ abandoned' = {})
         => \A i \in inflight' : requests'[i].kind # "DELETE"]_vars

\* the number of queued items with the action
Count(q, action) == Cardinality({i \in 1..Len(q) : q[i].action = action})

\* a reset that directly follows a reset changes nothing and sends nothing
LaterResetIsNoOp ==
    (op.name = "reset" /\ op'.name = "reset") =>
        /\ currentState' = currentState
        /\ queue' = queue
        /\ requests' = requests
        /\ inflight' = inflight
        /\ referenceId' = referenceId

\* C28, as claimed: in a burst of resets every reset after the first changes
\* neither state nor queue, and after a reset the queue holds at most one
\* SUBSCRIBE and at most one UNSUBSCRIBE.
C28_ResetBurstIsAbsorbed ==
    [][/\ LaterResetIsNoOp
       /\ op'.name = "reset" =>
            /\ Count(queue', ACTION_SUBSCRIBE) <= 1
            /\ Count(queue', ACTION_UNSUBSCRIBE) <= 1]_vars

\* C28, amended: in a burst of resets every reset after the first changes
\* neither state nor queue and sends nothing; the first sends at most one
\* DELETE and no POST and adds at most one UNSUBSCRIBE and at most one
\* SUBSCRIBE to what the caller had queued.
C28_ResetBurstAddsOneOfEach ==
    [][/\ LaterResetIsNoOp
       /\ op'.name = "reset" =>
            /\ Kinds(NewRequests) \in {<< >>, << "DELETE" >>}
            /\ Count(queue', ACTION_SUBSCRIBE) <= Count(queue, ACTION_SUBSCRIBE) + 1
            /\ Count(queue', ACTION_UNSUBSCRIBE) <= Count(queue, ACTION_UNSUBSCRIBE) + 1
            /\ Len(queue') > Len(queue) =>
                 getLastItem(queue').action = ACTION_SUBSCRIBE]_vars

\* a second reset followed a reset that had sent the DELETE and queued the
\* subscribe: the DELETE is still the only one and the queue is unchanged
C28_Witness ==
    /\ op.name = "reset"
    /\ op.preState = STATE_UNSUBSCRIBE_REQUESTED
    /\ currentState = STATE_UNSUBSCRIBE_REQUESTED
    /\ Kinds(requests) = << "POST", "DELETE" >>
    /\ inflight = {2}
    /\ QueuedActions(queue) = << ACTION_SUBSCRIBE >>

\* the calls that are to cancel a pending retry
CancellingCalls ==
    {"onSubscribe", "onUnsubscribe", "onModify", "onUnsubscribeByTagPending",
     "onConnectionUnavailable"}

\* C29: a call of onSubscribe, onUnsubscribe, onModify,
\* onUnsubscribeByTagPending or onConnectionUnavailable (one that returns
\* rather than throws) cancels the pending network-error retry: after the
\* call no timer is left to fire.
C29_CallCancelsRetryTimer ==
    [][op'.name \in CancellingCalls /\ ~thrown' =>
        /\ timers' = {}
        /\ networkErrorSubscribingTimer' = 0]_vars

\* the same for the timer the subscription still holds the id of
C29_CallCancelsLatestRetryTimer ==
    [][op'.name \in CancellingCalls /\ ~thrown' =>
        /\ networkErrorSubscribingTimer \notin timers'
        /\ networkErrorSubscribingTimer' = 0]_vars

\* The coalescing table, written without recursion. An item removes a tail
\* it meets by one of the four removal rules; it goes on removing until the
\* tail is one it does not remove, and is then dropped (same non-patch
\* action, the forces or-ed for UNSUBSCRIBE) or appended.
Removes(tail, item) ==
    \/ tail.action = ACTION_UNSUBSCRIBE /\ ~tail.force /\ item.action = ACTION_SUBSCRIBE
    \/ tail.action = ACTION_SUBSCRIBE
         /\ item.action \in {ACTION_UNSUBSCRIBE, ACTION_UNSUBSCRIBE_BY_TAG_PENDING}
    \/ tail.action = ACTION_MODIFY_PATCH
         /\ \/ item.action = ACTION_UNSUBSCRIBE /\ item.force
            \/ item.action = ACTION_UNSUBSCRIBE_BY_TAG_PENDING
    \/ tail.action = ACTION_UNSUBSCRIBE /\ item.action = ACTION_UNSUBSCRIBE_BY_TAG_PENDING

SameAsTail(tail, item) ==
    tail.action = item.action /\ item.action # ACTION_MODIFY_PATCH

\* the number of items that stay: those behind it are removed one by one
Kept(items, item) ==
    CHOOSE n \in 0..Len(items) :
        /\ \A i \in (n + 1)..Len(items) : Removes(items[i], item)
        /\ n > 0 => ~Removes(items[n], item)

Coalesced(items, item) ==
    LET kept == SubSeq(items, 1, Kept(items, item))
    IN  IF kept # << >> /\ SameAsTail(kept[Len(kept)], item)
        THEN IF item.action = ACTION_UNSUBSCRIBE
             THEN [kept EXCEPT ![Len(kept)].force = @ \/ item.force]
             ELSE kept
        ELSE Append(kept, item)

\* C30: on every queue reachable through the queue's operations and for
\* every item with a valid action, enqueue yields the queue of the coalescing
\* table applied until no rule matches; SUBSCRIBE, UNSUBSCRIBE, SUBSCRIBE,
\* UNSUBSCRIBE (unforced) into an empty queue leave one unforced UNSUBSCRIBE.
C30_EnqueueFollowsCoalescingTable ==
    /\ \A item \in QueueItems : enqueue(queue, item) = Coalesced(queue, item)
    /\ EnqueueAll(<< >>, << Item(ACTION_SUBSCRIBE, FALSE, 0),
                           Item(ACTION_UNSUBSCRIBE, FALSE, 0),
                           Item(ACTION_SUBSCRIBE, FALSE, 0),
                           Item(ACTION_UNSUBSCRIBE, FALSE, 0) >>)
         = << Item(ACTION_UNSUBSCRIBE, FALSE, 0) >>

\* an enqueue has built a queue on which a further enqueue applies more than
\* one rule: it removes a tail and then removes or merges again
C30_Witness ==
    /\ op.name = "enqueue"
    /\ Len(queue) >= 2
    /\ \E item \in QueueItems : Len(enqueue(queue, item)) < Len(queue)

\* a SUBSCRIBE is enqueued on a queue whose tail is an UNSUBSCRIBE
SubscribeMeetsUnsubscribe(force) ==
    /\ op'.name = "enqueue"
    /\ op'.arg = ACTION_SUBSCRIBE
    /\ ~isEmpty(queue)
    /\ getLastItem(queue) = Item(ACTION_UNSUBSCRIBE, force, 0)

\* C31: a SUBSCRIBE enqueued on a tail that is an unforced UNSUBSCRIBE
\* collapses the pair to nothing, the queue afterwards holding neither of
\* them; on a forced UNSUBSCRIBE the SUBSCRIBE is appended after it.
C31_SubscribeAndUnforcedUnsubscribeVanish ==
    [][/\ SubscribeMeetsUnsubscribe(FALSE) => queue' = RemoveLast(queue)
       /\ SubscribeMeetsUnsubscribe(TRUE)
            => queue' = Append(queue, Item(ACTION_SUBSCRIBE, FALSE, 0))]_vars

\* C31, amended: a SUBSCRIBE enqueued on a tail that is an unforced
\* UNSUBSCRIBE removes the UNSUBSCRIBE and takes its place as the tail; on a
\* forced UNSUBSCRIBE the SUBSCRIBE is appended after it.
C31_SubscribeReplacesUnforcedUnsubscribe ==
    [][/\ SubscribeMeetsUnsubscribe(FALSE)
            => queue' = Append(RemoveLast(queue), Item(ACTION_SUBSCRIBE, FALSE, 0))
       /\ SubscribeMeetsUnsubscribe(TRUE)
            => queue' = Append(queue, Item(ACTION_SUBSCRIBE, FALSE, 0))]_vars

\* a forced UNSUBSCRIBE with the SUBSCRIBE that was enqueued behind it
C31_Witness ==
    /\ op.name = "enqueue"
    /\ op.arg = ACTION_SUBSCRIBE
    /\ Len(queue) >= 2
    /\ queue[Len(queue) - 1] = Item(ACTION_UNSUBSCRIBE, TRUE, 0)
    /\ getLastItem(queue) = Item(ACTION_SUBSCRIBE, FALSE, 0)

\* the force the tail is to carry once an UNSUBSCRIBE has been enqueued: its
\* own, or-ed with that of the UNSUBSCRIBE it is merged into
MergedForce(items, item) ==
    LET kept == SubSeq(items, 1, Kept(items, item))
    IN  \/ item.force
        \/ /\ kept # << >>
           /\ getLastItem(kept).action = ACTION_UNSUBSCRIBE
           /\ getLastItem(kept).force

\* C32: on every reachable queue, enqueuing an item that is not a
\* MODIFY_PATCH twice leaves the queue a single enqueue leaves; its tail is
\* one item with that action, carrying for UNSUBSCRIBE the OR of the forces
\* merged into it. Two enqueues of a MODIFY_PATCH leave two patch items.
C32_EnqueueIsIdempotentUnlessPatch ==
    \A a \in QueueItems :
        LET once == enqueue(queue, a)
            twice == enqueue(once, a)
        IN  IF a.action # ACTION_MODIFY_PATCH
            THEN /\ twice = once
                 /\ getLastItem(once).action = a.action
                 /\ Len(once) >= 2 => once[Len(once) - 1].action # a.action
                 /\ a.action = ACTION_UNSUBSCRIBE
                      => getLastItem(once).force = MergedForce(queue, a)
            ELSE /\ once = Append(queue, a)
                 /\ twice = Append(once, a)

\* an unforced UNSUBSCRIBE has been enqueued on a forced one, which kept its
\* force, and a further one changes nothing
C32_Witness ==
    /\ op.name = "enqueue"
    /\ op.arg = ACTION_UNSUBSCRIBE
    /\ op.ref = 0
    /\ ~isEmpty(queue)
    /\ getLastItem(queue) = Item(ACTION_UNSUBSCRIBE, TRUE, 0)
    /\ enqueue(queue, Item(ACTION_UNSUBSCRIBE, FALSE, 0)) = queue

UnsubscribeActions == {ACTION_UNSUBSCRIBE, ACTION_UNSUBSCRIBE_BY_TAG_PENDING}

\* the positions of the unsubscribes behind the head, and the last of them
UnsubscribesBehindHead ==
    {i \in 2..Len(queue) : queue[i].action \in UnsubscribeActions}

LastUnsubscribe == CHOOSE i \in UnsubscribesBehindHead : \A j \in UnsubscribesBehindHead : j <= i

DequeueOnEmpty ==
    op'.name = "dequeue" /\ isEmpty(queue) => queue' = queue /\ returned' = "undefined"

MaxAnyQueue == 3

\* every queue of up to MaxAnyQueue items, reachable or not
AnyQueue == UNION {[1..n -> QueueItems] : n \in 0..MaxAnyQueue}

Survives(item) == item.action \notin {ACTION_SUBSCRIBE, ACTION_MODIFY_PATCH}

\* what clearPatches is to leave of a queue
ClearedAsSpecified(before, after) ==
    LET survivors == {i \in 1..Len(before) : Survives(before[i])}
    IN  /\ Len(after) <= 1
        /\ \A i \in 1..Len(after) : Survives(after[i])
        /\ IF survivors = {} THEN after = << >>
           ELSE after = << before[CHOOSE i \in survivors : \A j \in survivors : i <= j] >>

\* the queue as the POST of this step left it: onModify and reset call
\* onSubscribe after onUnsubscribe, which queues a SUBSCRIBE behind a POST
\* the unsubscribe has led to
QueueAtPost ==
    IF /\ op'.name \in {"onModify", "reset"}
       /\ ~isEmpty(queue')
       /\ getLastItem(queue').action = ACTION_SUBSCRIBE
    THEN RemoveLast(queue')
    ELSE queue'

\* C34: clearPatches leaves of any queue at most one item, the first that is
\* neither SUBSCRIBE nor MODIFY_PATCH, and nothing if there is none; it is
\* called whenever a SUBSCRIBE is executed in UNSUBSCRIBED, before the POST:
\* the queue a POST leaves is one clearPatches would leave as it is.
C34_ClearPatchesBeforeEveryPost ==
    [][/\ \A items \in AnyQueue : ClearedAsSpecified(items, clearPatches(items))
       /\ PostSent => ClearedAsSpecified(QueueAtPost, QueueAtPost)]_vars

\* the response to a DELETE has taken a queued SUBSCRIBE, in UNSUBSCRIBED,
\* and the POST has left with the queue cleared
C34_Witness ==
    /\ op.name = "onUnsubscribeSuccess"
    /\ op.preState = STATE_UNSUBSCRIBE_REQUESTED
    /\ currentState = STATE_SUBSCRIBE_REQUESTED
    /\ Len(requests) > 0
    /\ requests[Len(requests)].kind = "POST"
    /\ isEmpty(queue)

\* the positions of the POSTs issued before request i
PostsBefore(i) == {j \in 1..(i - 1) : requests[j].kind = "POST"}

LastPostBefore(i) == CHOOSE j \in PostsBefore(i) : \A k \in PostsBefore(i) : k <= j

\* C35: every unsubscribe DELETE and every PATCH carries the reference id of
\* the most recent subscribe POST and the context id that POST carried,
\* whatever the context id of the connection has become since.
C35_DeleteAndPatchTargetLastPost ==
    \A i \in 1..Len(requests) :
        requests[i].kind \in {"DELETE", "PATCH"}
          => /\ PostsBefore(i) # {}
             /\ requests[i].ReferenceId = requests[LastPostBefore(i)].ReferenceId
             /\ requests[i].ContextId = requests[LastPostBefore(i)].ContextId

\* a DELETE has just left for the context of its POST, after the connection
\* has moved to another one
C35_Witness ==
    /\ Len(requests) >= 2
    /\ requests[Len(requests)].kind = "DELETE"
    /\ currentState = STATE_UNSUBSCRIBE_REQUESTED
    /\ requests[Len(requests)].ContextId # streamingContextId
    /\ requests[Len(requests)].ContextId = currentStreamingContextId

\* the subscription has come to rest in the state: nothing queued, nothing
\* awaited
AtRest(state) ==
    /\ currentState = state
    /\ isEmpty(queue)
    /\ inflight = {}

\* the requests the model allows are used up
Exhausted == Len(requests) >= bound.http

\* C36: the last caller intent wins. After a call of onSubscribe the
\* subscription comes to rest in SUBSCRIBED unless the caller calls
\* onUnsubscribe first, and after a call of onUnsubscribe it comes to rest
\* in UNSUBSCRIBED unless the caller calls onSubscribe first.
C36_LastIntentWins ==
    /\ (op.name = "onSubscribe")
         ~> (AtRest(STATE_SUBSCRIBED) \/ op.name = "onUnsubscribe" \/ Exhausted)
    /\ (op.name = "onUnsubscribe")
         ~> (AtRest(STATE_UNSUBSCRIBED) \/ op.name = "onSubscribe" \/ Exhausted)

\* a subscribe that waited behind a forced unsubscribe has been carried out:
\* the subscription is at rest, subscribed by its second POST
C36_Witness ==
    /\ AtRest(STATE_SUBSCRIBED)
    /\ Kinds(requests) = << "POST", "DELETE", "POST" >>
    /\ op.name = "onSubscribeSuccess"

\* the subscription is idle: settled in SUBSCRIBED or UNSUBSCRIBED on an
\* available connection, no retry timer pending
Idle ==
    /\ currentState \in {STATE_SUBSCRIBED, STATE_UNSUBSCRIBED}
    /\ connectionAvailable
    /\ timers = {}
    /\ networkErrorSubscribingTimer = 0

\* C37: between events, whenever the subscription is idle (SUBSCRIBED or
\* UNSUBSCRIBED, connection available, no network-error retry timer pending)
\* the action queue is empty.
C37_IdleMeansQueueEmpty == Idle => isEmpty(queue)

\* a subscribe response has taken the last queued action, which asked for
\* nothing more, and has left the subscription idle
C37_Witness ==
    /\ Idle
    /\ isEmpty(queue)
    /\ op.name = "onSubscribeSuccess"
    /\ CallsOf(calls, "onQueueEmpty") # << >>

\* the deltas the handler of this step has delivered to onUpdate
DeltasDelivered ==
    {i \in 1..Len(calls') : calls'[i].cb = "onUpdate" /\ calls'[i].y = UPDATE_TYPE_DELTA}

\* C38: a delta the replay of a successful subscribe response delivers to
\* onUpdate was received after the POST of that subscribe was issued, and
\* before any later POST: none buffered during an earlier attempt is delivered.
C38_ReplayDeliversOwnDeltasOnly ==
    [][op'.name = "onSubscribeSuccess"
         => \A i \in DeltasDelivered : calls'[i].x = op'.ref]_vars

\* a later subscribe, made after an earlier one failed or was undone,
\* has succeeded and its replay has delivered a delta
C38_Witness ==
    /\ op.name = "onSubscribeSuccess"
    /\ op.ref >= 2
    /\ \E i \in 1..Len(calls) :
          calls[i] = Call("onUpdate", op.ref, UPDATE_TYPE_DELTA)

NoBulkUnsubscribeQueued ==
    \A i \in 1..Len(queue) : queue[i].action # ACTION_UNSUBSCRIBE_BY_TAG_PENDING

\* onConnectionUnavailable with a retry timer pending cancels the timer and
\* queues the SUBSCRIBE, sending nothing
RetryIsQueued ==
    op'.name = "onConnectionUnavailable" /\ networkErrorSubscribingTimer # 0
      => /\ networkErrorSubscribingTimer' = 0
         /\ networkErrorSubscribingTimer \notin timers'
         /\ NewRequests = << >>
         /\ ~isEmpty(queue')
         /\ getLastItem(queue').action = ACTION_SUBSCRIBE

NoPostWhileUnavailable ==
    ~connectionAvailable /\ op'.name # "onConnectionAvailable" => ~PostSent

\* one POST, with a reference id no earlier request carried
FreshPostSent ==
    /\ Kinds(NewRequests) = << "POST" >>
    /\ \A i \in 1..Len(requests) : requests[i].ReferenceId # NewRequests[1].ReferenceId

\* the last call was an onConnectionUnavailable that found a retry timer
\* pending
RetryJustQueued == op.name = "onConnectionUnavailable" /\ op.arg = 1

\* C39: a retry timer pending when onConnectionUnavailable is called is not
\* lost: the timer is cancelled and a SUBSCRIBE queued, no POST is issued
\* while the connection is unavailable, and the next onConnectionAvailable
\* issues a POST with a fresh reference id (here: when it is the next call,
\* so that no unsubscribe was requested in between).
C39_RetrySurvivesDisconnect ==
    [][/\ RetryIsQueued
       /\ NoPostWhileUnavailable
       /\ RetryJustQueued /\ op'.name = "onConnectionAvailable" => FreshPostSent]_vars

\* the same for a timer found pending in UNSUBSCRIBED, where the network
\* error left the subscription, with no bulk unsubscribe queued
C39_RetrySurvivesDisconnectWhenUnsubscribed ==
    [][/\ RetryIsQueued
       /\ NoPostWhileUnavailable
       /\ RetryJustQueued /\ op.preState = STATE_UNSUBSCRIBED /\ NoBulkUnsubscribeQueued
            /\ op'.name = "onConnectionAvailable"
            => FreshPostSent]_vars

\* the subscription is subscribed, or awaits the response to a PATCH, and
\* nothing but patches is queued
OnlyPatchesPending ==
    /\ currentState \in {STATE_SUBSCRIBED, STATE_PATCH_REQUESTED}
    /\ \A i \in 1..Len(queue) : queue[i].action = ACTION_MODIFY_PATCH

\* the step sends the PATCH of the delta and nothing else, while no other
\* PATCH is awaited
PatchSentAlone(delta) ==
    /\ Len(NewRequests) = 1
    /\ NewRequests[1].kind = "PATCH"
    /\ NewRequests[1].delta = delta
    /\ \A i \in inflight' : requests'[i].kind = "PATCH" => i = Len(requests')

\* the call either sends its PATCH at once or queues it behind the others
PatchCallIsKept ==
    op'.name = "onModify" /\ op'.arg >= 2 /\ OnlyPatchesPending
      => \/ isEmpty(queue) /\ queue' = queue /\ PatchSentAlone(op'.arg - 1)
         \/ /\ NewRequests = << >>
            /\ queue' = Append(queue, Item(ACTION_MODIFY_PATCH, FALSE, op'.arg - 1))
            /\ (~connectionAvailable \/ currentState = STATE_PATCH_REQUESTED)

\* the response to the PATCH awaited arrives, or the connection comes back
\* while none is awaited
PatchTurnComes ==
    /\ \/ op'.name \in {"onModifyPatchSuccess", "onModifyPatchError"}
       \/ op'.name = "onConnectionAvailable" /\ currentState = STATE_SUBSCRIBED
    /\ OnlyPatchesPending
    /\ op'.ref = (IF op'.name = "onConnectionAvailable" THEN 0 ELSE referenceId)

\* the oldest queued patch is then sent and the others stay queued in order
NextPatchFollows ==
    PatchTurnComes
      => IF ~isEmpty(queue) /\ connectionAvailable'
         THEN queue' = Tail(queue) /\ PatchSentAlone(Head(queue).delta)
         ELSE queue' = queue /\ NewRequests = << >>

\* whatever the step, a PATCH it sends is the only request it sends and no
\* other PATCH is awaited
PatchesNeverOverlap ==
    OnlyPatchesPending
      => \A i \in 1..Len(NewRequests) :
             NewRequests[i].kind = "PATCH" => PatchSentAlone(NewRequests[i].delta)

\* C40: patches requested one after another while the subscription is
\* SUBSCRIBED or PATCH_REQUESTED are neither merged nor dropped: each is sent
\* at once or queued behind the earlier ones, the oldest queued one is sent
\* when the response to the PATCH awaited arrives, each PATCH carries the
\* delta of its call and none is sent while another is awaited.
C40_PatchesAreSentOneByOneInOrder ==
    [][PatchCallIsKept /\ NextPatchFollows /\ PatchesNeverOverlap]_vars

\* the response to a PATCH has sent the first of two queued patches, of
\* different deltas, and has left the second one queued
C40_Witness ==
    /\ op.name = "onModifyPatchSuccess"
    /\ currentState = STATE_PATCH_REQUESTED
    /\ Len(queue) = 1
    /\ queue[1].action = ACTION_MODIFY_PATCH
    /\ requests[Len(requests)].kind = "PATCH"
    /\ requests[Len(requests)].delta # queue[1].delta

====
